---------------------------- MODULE Spec2Model ----------------------------
(***************************************************************************)
(* A model of strace-tui: the line parser (src/parser/line_parser.rs), the *)
(* backtrace parser (src/parser/backtrace_parser.rs), the stitching parser *)
(* StraceParser::parse_lines (src/parser/mod.rs), the address resolver     *)
(* (src/parser/resolver.rs), the process graph                             *)
(* (src/tui/process_graph.rs) and the App with its key handlers            *)
(* (src/tui/app.rs, src/tui/ui.rs, src/tui/mod.rs).                        *)
(*                                                                         *)
(* Text is modelled as TLA+ strings, read character by character with      *)
(* Len, SubSeq and \o; offsets are 0-based as in the Rust source (all the  *)
(* text considered is ASCII, so byte offsets and character offsets agree). *)
(* Option<T> is modelled as a sequence of length 0 (None) or 1 (Some).     *)
(***************************************************************************)
EXTENDS Integers, Sequences, FiniteSets, TLC

VARIABLES
    pc,             \* parse_lines: "parse", "done", "panic"; a pure function: before and after ("line"/"lexed", "args"/"scanned"); run_app: "draw", "event", "editor", "quit"
    input,          \* the lines the iterator has yielded so far (catalogue indices)
    entries,        \* parse_lines: `entries`
    current_entry,  \* parse_lines: `current_entry` (Option<SyscallEntry>)
    unfinished,     \* StraceParser.unfinished (HashMap<u32, usize>), a function pid -> index
    errors,         \* StraceParser.errors
    line_number,    \* StraceParser.line_number
    origin,         \* history: for each entry of entries \o current_entry, the number of its line
    text,           \* the text handed to a pure parsing function
    shape,          \* the structured input of a pure function (how `text` was composed)
    result,         \* what the pure function returned
    resolver,       \* Addr2LineResolver: [loaders, cache]
    last_frame,     \* the BacktraceFrame last handed to resolve_frame (Option)
    calls,          \* history: the calls of resolve_frame and what each asked of addr2line
    build_entries,  \* ProcessGraph::build: `entries`
    pid_first_seen, \* ProcessGraph::build: `pid_first_seen` (HashMap<u32, usize>)
    pid_last_seen,  \* ProcessGraph::build: `pid_last_seen` (HashMap<u32, usize>)
    fork_relationships, \* ProcessGraph::build: `fork_relationships`
    pids_ordered,   \* ProcessGraph::build: `pids_ordered`, the start and end events
    event_index,    \* ProcessGraph::build: how many events the second pass has taken
    free_columns,   \* ProcessGraph::build: `free_columns`
    max_columns,    \* ProcessGraph::build: `max_columns`
    processes,      \* ProcessGraph::build: `processes` (HashMap<u32, ProcessInfo>)
    app,            \* run_app: the App, with `rebuilt` a history of the event being handled
    keys            \* history: the number of key events run_app has handled

parser_vars == <<input, entries, current_entry, unfinished, errors, line_number, origin>>

pure_vars == <<text, shape, result>>

resolver_vars == <<resolver, last_frame, calls>>

graph_vars == <<build_entries, pid_first_seen, pid_last_seen, fork_relationships,
                pids_ordered, event_index, free_columns, max_columns, processes>>

app_vars == <<app, keys>>

vars == <<pc, parser_vars, pure_vars, resolver_vars, graph_vars, app_vars>>

\* what a step of parse_lines, of a pure function, of the resolver, of
\* ProcessGraph::build, of run_app leaves alone
outside_parser == <<pure_vars, resolver_vars, graph_vars, app_vars>>

outside_pure == <<parser_vars, resolver_vars, graph_vars, app_vars>>

outside_resolver == <<parser_vars, pure_vars, graph_vars, app_vars>>

outside_graph == <<parser_vars, pure_vars, resolver_vars, app_vars>>

outside_app == <<parser_vars, pure_vars, resolver_vars, graph_vars>>

-----------------------------------------------------------------------------
(* Option<T> *)

None == <<>>

Some(x) == <<x>>

IsSome(o) == o # <<>>

-----------------------------------------------------------------------------
(* Character classes *)

Digits == {"0", "1", "2", "3", "4", "5", "6", "7", "8", "9"}

LowerCase == {"a", "b", "c", "d", "e", "f", "g", "h", "i", "j", "k", "l", "m",
              "n", "o", "p", "q", "r", "s", "t", "u", "v", "w", "x", "y", "z"}

UpperCase == {"A", "B", "C", "D", "E", "F", "G", "H", "I", "J", "K", "L", "M",
              "N", "O", "P", "Q", "R", "S", "T", "U", "V", "W", "X", "Y", "Z"}

\* char::is_alphanumeric, on ASCII
AlphaNumeric == Digits \cup LowerCase \cup UpperCase

\* char::is_ascii_hexdigit
HexDigits == Digits \cup {"a", "b", "c", "d", "e", "f", "A", "B", "C", "D", "E", "F"}

\* char::is_whitespace (str::trim, split_whitespace), on ASCII
WhiteSpace == {" ", "\t", "\n", "\r", "\f"}

\* nom space0 / space1: space and tab
SpaceTab == {" ", "\t"}

-----------------------------------------------------------------------------
(* str helpers *)

\* s[a..b] for 0-based offsets a <= b
Slice(s, a, b) == SubSeq(s, a + 1, b)

\* s[a..]
From(s, a) == SubSeq(s, a + 1, Len(s))

CharAt(s, i) == SubSeq(s, i + 1, i + 1)

SetMin(S) == CHOOSE m \in S : \A n \in S : m <= n

\* the number of leading characters of s that belong to class
SpanLen(s, class) ==
    LET stop == {i \in 0..(Len(s) - 1) : CharAt(s, i) \notin class}
    IN  IF stop = {} THEN Len(s) ELSE SetMin(stop)

\* the number of trailing characters of s that belong to class
SpanLenBack(s, class) ==
    LET stop == {i \in 0..(Len(s) - 1) : CharAt(s, Len(s) - 1 - i) \notin class}
    IN  IF stop = {} THEN Len(s) ELSE SetMin(stop)

\* str::starts_with
StartsWith(s, p) == Len(p) <= Len(s) /\ Slice(s, 0, Len(p)) = p

\* str::find: the 0-based offset of the first occurrence of pat, or -1 (None)
Find(s, pat) ==
    LET hits == {i \in 0..(Len(s) - Len(pat)) : Slice(s, i, i + Len(pat)) = pat}
    IN  IF hits = {} THEN -1 ELSE SetMin(hits)

\* str::contains
Contains(s, pat) == Find(s, pat) # -1

\* str::trim_start
TrimStart(s) == From(s, SpanLen(s, WhiteSpace))

\* str::trim_end
TrimEnd(s) == Slice(s, 0, Len(s) - SpanLenBack(s, WhiteSpace))

\* str::trim
Trim(s) == TrimEnd(TrimStart(s))

\* str::trim_end_matches(set of chars)
TrimEndMatches(s, class) == Slice(s, 0, Len(s) - SpanLenBack(s, class))

\* the number of leading characters of s that do not belong to stops
SpanUntil(s, stops) ==
    LET hit == {i \in 0..(Len(s) - 1) : CharAt(s, i) \in stops}
    IN  IF hit = {} THEN Len(s) ELSE SetMin(hit)

\* s.split_whitespace().next()
FirstToken(s) ==
    LET t == TrimStart(s)
        n == SpanUntil(t, WhiteSpace)
    IN  IF n = 0 THEN None ELSE Some(Slice(t, 0, n))

DigitValue(c) ==
    CASE c = "0" -> 0 [] c = "1" -> 1 [] c = "2" -> 2 [] c = "3" -> 3 [] c = "4" -> 4
      [] c = "5" -> 5 [] c = "6" -> 6 [] c = "7" -> 7 [] c = "8" -> 8 [] c = "9" -> 9

RECURSIVE DecimalValue(_)
\* the value of a string of decimal digits
DecimalValue(s) ==
    IF Len(s) = 0 THEN 0
    ELSE 10 * DecimalValue(Slice(s, 0, Len(s) - 1)) + DigitValue(CharAt(s, Len(s) - 1))

\* str::parse::<u32>() and str::parse::<i32>() on an unsigned digit string: None on
\* an empty string, a non-digit, or overflow.  Strings of more than nine
\* significant digits are taken to overflow (the model's inputs have either at
\* most nine digits or more than ten).
ParseUnsigned(s) ==
    LET sig == From(s, SpanLen(s, {"0"}))
    IN  IF Len(s) = 0 \/ SpanLen(s, Digits) # Len(s) \/ Len(sig) > 9 THEN None
        ELSE Some(DecimalValue(sig))

\* str::parse::<i32>(): an optional sign, then digits
ParseI32(s) ==
    LET neg  == StartsWith(s, "-")
        body == IF neg \/ StartsWith(s, "+") THEN From(s, 1) ELSE s
        v    == ParseUnsigned(body)
    IN  IF v = None THEN None
        ELSE IF neg THEN Some(0 - v[1]) ELSE v

UnwrapOr(o, d) == IF IsSome(o) THEN o[1] ELSE d

-----------------------------------------------------------------------------
(* nom: a parser is followed through the text by offsets.  An offset is the *)
(* place the parser has reached in s, -1 once it has failed.                *)

\* IResult<&str, T>
Fail == [ok |-> FALSE]

Done(rest, val) == [ok |-> TRUE, rest |-> rest, val |-> val]

\* take_while1 / digit1 / space1 at offset i
span1(s, i, class) ==
    IF i = -1 \/ SpanLen(From(s, i), class) = 0 THEN -1
    ELSE i + SpanLen(From(s, i), class)

\* take_while / space0 at offset i
span0(s, i, class) == IF i = -1 THEN -1 ELSE i + SpanLen(From(s, i), class)

\* tag / char at offset i
lit(s, i, t) == IF i # -1 /\ StartsWith(From(s, i), t) THEN i + Len(t) ELSE -1

\* opt: e is the offset before the optional part, f the offset after it
opt(e, f) == IF f # -1 THEN f ELSE e

\* the text matched between offsets b and e, and the rest
between(s, b, e) == IF b = -1 \/ e = -1 THEN Fail ELSE Done(From(s, e), Slice(s, b, e))

\* recognize
recognize(s, e) == between(s, 0, e)

\* Result::or_else
or_else(a, b) == IF a.ok THEN a ELSE b

\* Result::ok
ok_value(r) == IF r.ok THEN Some(r.val) ELSE None

-----------------------------------------------------------------------------
(* src/parser/types.rs *)

\* SyscallEntry::new
NewEntry(pid, timestamp, syscall_name) ==
    [pid           |-> pid,
     timestamp     |-> timestamp,
     syscall_name  |-> syscall_name,
     arguments     |-> "",
     return_value  |-> None,
     errno         |-> None,
     duration      |-> None,
     backtrace     |-> <<>>,
     is_unfinished |-> FALSE,
     is_resumed    |-> FALSE,
     signal        |-> None,
     exit_info     |-> None]

\* ParseResult<T>
Ok(v) == [ok |-> TRUE, val |-> v]

\* ParseError: the variant and the fixed part of its message
Err(kind, msg) == [ok |-> FALSE, kind |-> kind, msg |-> msg]

-----------------------------------------------------------------------------
(* src/parser/line_parser.rs *)

\* digit1 ':' digit1 ':' digit1
hms_end(s) ==
    span1(s, lit(s, span1(s, lit(s, span1(s, 0, Digits), ":"), Digits), ":"), Digits)

\* parse_timestamp: digit1 ':' digit1 ':' digit1 ('.' digit1)?
parse_timestamp(s) ==
    recognize(s, opt(hms_end(s), span1(s, lit(s, hms_end(s), "."), Digits)))

digit1(s) == recognize(s, span1(s, 0, Digits))

\* terminated(p, space1), on the result r of p
terminated_space1(r) ==
    IF r.ok /\ SpanLen(r.rest, SpaceTab) > 0
    THEN Done(From(r.rest, SpanLen(r.rest, SpaceTab)), r.val)
    ELSE Fail

\* Ok((rest, (pid, timestamp)))
prefix_of(pid, t) ==
    IF t.ok THEN Done(t.rest, [pid |-> pid, timestamp |-> t.val]) ELSE Fail

\* pid.parse().unwrap_or(0)
pid_value(digits) == UnwrapOr(ParseUnsigned(digits), 0)

\* the second line of parse_pid_and_timestamp, on the result p of the first
timestamp_after_pid(p) ==
    IF p.ok
    THEN prefix_of(pid_value(p.val), terminated_space1(parse_timestamp(p.rest)))
    ELSE Fail

parse_pid_and_timestamp(s) == timestamp_after_pid(terminated_space1(digit1(s)))

parse_timestamp_only(s) == prefix_of(0, terminated_space1(parse_timestamp(s)))

\* Ok((rest, (pid, String::new())))
pid_only_of(p) ==
    IF p.ok THEN Done(p.rest, [pid |-> pid_value(p.val), timestamp |-> ""]) ELSE Fail

parse_pid_only(s) == pid_only_of(terminated_space1(digit1(s)))

parse_no_prefix(s) == Done(s, [pid |-> 0, timestamp |-> ""])

\* parse_prefix probing PID only before the two timestamp forms
parse_prefix_pid_first(s) ==
    or_else(parse_pid_only(s),
            or_else(parse_pid_and_timestamp(s),
                    or_else(parse_timestamp_only(s), parse_no_prefix(s))))

\* the or_else chain shared by parse_strace_line, parse_signal_line and
\* parse_exit_line: the first of the four prefix parsers that succeeds
parse_prefix(s) ==
    or_else(parse_pid_and_timestamp(s),
            or_else(parse_timestamp_only(s),
                    or_else(parse_pid_only(s), parse_no_prefix(s))))

parse_syscall_name(s) == recognize(s, span1(s, 0, AlphaNumeric \cup {"_", "$"}))

RECURSIVE scan_close(_, _, _)
\* the for loop of parse_arguments from character i at nesting depth `depth`:
\* the offset of the `)` that brings the depth to 0, or -1 when the text ends first
scan_close(s, i, depth) ==
    IF i >= Len(s) THEN -1
    ELSE IF CharAt(s, i) = "(" THEN scan_close(s, i + 1, depth + 1)
    ELSE IF CharAt(s, i) = ")"
         THEN (IF depth = 1 THEN i ELSE scan_close(s, i + 1, depth - 1))
    ELSE scan_close(s, i + 1, depth)

\* the end of parse_arguments: end_pos is where the loop stopped
close_arguments(rest, end_pos) ==
    IF end_pos = -1 THEN Done("", rest)
    ELSE Done(From(rest, end_pos + 1), Slice(rest, 0, end_pos))

\* parse_arguments after the opening parenthesis
scan_arguments(rest) ==
    IF Contains(rest, "<unfinished")
    THEN Done(From(rest, Find(rest, "<unfinished")),
              TrimEndMatches(Slice(rest, 0, Find(rest, "<unfinished")), {",", " "}))
    ELSE close_arguments(rest, scan_close(rest, 0, 1))

parse_arguments(s) ==
    IF lit(s, span0(s, 0, SpaceTab), "(") = -1 THEN Fail
    ELSE scan_arguments(From(s, lit(s, span0(s, 0, SpaceTab), "(")))

\* the first alternative of alt(...) that matches
alt4(a, b, c, d) == IF a # -1 THEN a ELSE IF b # -1 THEN b ELSE IF c # -1 THEN c ELSE d

\* the alt(...) of parse_return_value at offset b: hex, signed decimal, `?` with an
\* optional +name, NULL
return_token_end(s, b) ==
    alt4(span1(s, lit(s, b, "0x"), HexDigits),
         span1(s, opt(b, lit(s, b, "-")), Digits),
         opt(lit(s, b, "?"),
             span1(s, lit(s, lit(s, b, "?"), "+"), AlphaNumeric \cup {"_"})),
         lit(s, b, "NULL"))

\* space0 '=' space0
return_token_start(s) == span0(s, lit(s, span0(s, 0, SpaceTab), "="), SpaceTab)

\* parse_return_value; val is the text of the value (the source wraps it in Some)
parse_return_value(s) ==
    between(s, return_token_start(s), return_token_end(s, return_token_start(s)))

\* the message in parentheses after the errno code
paren_message(rest, start) ==
    IF start = -1 \/ Find(From(rest, start), ")") = -1 THEN ""
    ELSE Slice(rest, start + 1, start + Find(From(rest, start), ")"))

errno_of(code) ==
    IF ~code.ok THEN Fail
    ELSE Done(code.rest,
              [code |-> code.val, message |-> paren_message(code.rest, Find(code.rest, "("))])

parse_errno(s) ==
    errno_of(between(s, span0(s, 0, SpaceTab),
                     span1(s, span0(s, 0, SpaceTab), UpperCase \cup Digits)))

\* the offset after '<' and the offset after digit1? ('.' digit1)?
duration_open(s) == lit(s, span0(s, 0, SpaceTab), "<")

duration_close(s, a) ==
    opt(opt(a, span1(s, a, Digits)),
        span1(s, lit(s, opt(a, span1(s, a, Digits)), "."), Digits))

\* the f64 is kept as its decimal text; "" is what f64::from_str rejects, giving 0.0
duration_of(s, a, c) ==
    IF lit(s, c, ">") = -1 THEN Fail
    ELSE Done(From(s, c + 1), IF c = a THEN "0.0" ELSE Slice(s, a, c))

parse_duration(s) == duration_of(s, duration_open(s), duration_close(s, duration_open(s)))

\* the errno is looked for only after a return value with one of these prefixes
errno_after(ret, e, errno_on) ==
    IF e.ok /\ (\E p \in errno_on : StartsWith(ret, p)) THEN Some(e.val) ELSE None

\* the return value, errno and duration parsed from the tail s of a line, r being
\* parse_return_value(s)
tail_of(r, s, errno_on) ==
    IF r.ok
    THEN [ok           |-> TRUE,
          return_value |-> Some(r.val),
          errno        |-> errno_after(r.val, parse_errno(r.rest), errno_on),
          duration     |-> ok_value(parse_duration(r.rest))]
    ELSE [ok           |-> FALSE,
          return_value |-> None,
          errno        |-> None,
          duration     |-> ok_value(parse_duration(s))]

parse_tail(s, errno_on) == tail_of(parse_return_value(s), s, errno_on)

set_tail(entry, tail) ==
    [entry EXCEPT !.return_value = tail.return_value,
                  !.errno = tail.errno,
                  !.duration = tail.duration]

\* parse_resumed_line: the name between "<..." and "resumed>"
resumed_name(after_dots) ==
    IF Find(after_dots, "resumed>") = -1 THEN "unknown"
    ELSE Trim(Slice(after_dots, 0, Find(after_dots, "resumed>")))

resumed_syscall_name(inp) ==
    IF Find(inp, "<...") = -1 THEN "unknown"
    ELSE resumed_name(TrimStart(From(inp, Find(inp, "<...") + 4)))

\* parse_resumed_line: the return value is taken only when it parses
resumed_return(entry, tail) == IF tail.ok THEN set_tail(entry, tail) ELSE entry

\* parse_resumed_line: the text after "resumed>"
resumed_rest(entry, after_resumed) ==
    IF Find(after_resumed, ") = ") # -1
    THEN resumed_return(
            [entry EXCEPT !.arguments =
                Trim(Slice(after_resumed, 0, Find(after_resumed, ") = ") + 1))],
            parse_tail(From(after_resumed, Find(after_resumed, ") = ") + 1), {"-1"}))
    ELSE IF Find(after_resumed, "=") # -1
    THEN resumed_return(entry, parse_tail(From(after_resumed, Find(after_resumed, "=")), {"-1"}))
    ELSE entry

resumed_entry(entry, inp) ==
    IF Find(inp, "resumed>") = -1 THEN entry
    ELSE resumed_rest(entry, TrimStart(From(inp, Find(inp, "resumed>") + 8)))

parse_resumed_line(pid, timestamp, rest) ==
    Ok(resumed_entry(
        [NewEntry(pid, timestamp, resumed_syscall_name(TrimStart(rest)))
            EXCEPT !.is_resumed = TRUE],
        TrimStart(rest)))

\* SyscallEntry::new(pid, timestamp, name) for the prefix p
entry_for(p, name) == NewEntry(p.pid, p.timestamp, name)

with_signal(entry, signal_text) ==
    [entry EXCEPT !.signal =
        Some([signal_name |-> UnwrapOr(FirstToken(signal_text), "UNKNOWN"),
              details     |-> signal_text])]

\* parse_signal_line: the text after the first "---"
signal_after(entry, after_start) ==
    IF Find(after_start, "---") = -1 THEN Ok(entry)
    ELSE Ok(with_signal(entry, Trim(Slice(after_start, 0, Find(after_start, "---")))))

parse_signal_line(line) ==
    IF Find(line, "---") = -1 THEN Ok(entry_for(parse_prefix(line).val, "signal"))
    ELSE signal_after(entry_for(parse_prefix(line).val, "signal"),
                      From(line, Find(line, "---") + 3))

\* .and_then(|s| s.parse().ok()).unwrap_or(0)
exit_code_of(tok) == IF IsSome(tok) THEN UnwrapOr(ParseI32(tok[1]), 0) ELSE 0

\* after_start.split("with").nth(1), its first token parsed; piece is the text
\* after the first "with"
exit_code(piece) ==
    exit_code_of(FirstToken(IF Find(piece, "with") = -1 THEN piece
                            ELSE Slice(piece, 0, Find(piece, "with"))))

\* parse_exit_line: the text after the first "+++"
exit_after(entry, after_start) ==
    Ok([entry EXCEPT !.exit_info =
        Some([code   |-> IF Contains(after_start, "exited with")
                         THEN exit_code(From(after_start, Find(after_start, "with") + 4))
                         ELSE 0,
              killed |-> Contains(after_start, "killed")])])

parse_exit_line(line) ==
    IF Find(line, "+++") = -1 THEN Ok(entry_for(parse_prefix(line).val, "exit"))
    ELSE exit_after(entry_for(parse_prefix(line).val, "exit"),
                    From(line, Find(line, "+++") + 3))

\* parse_strace_line after the arguments
call_after_arguments(entry, args) ==
    IF ~args.ok THEN Err("InvalidSyscall", "Failed to parse arguments")
    ELSE IF Contains(args.rest, "<unfinished")
    THEN Ok([entry EXCEPT !.arguments = args.val, !.is_unfinished = TRUE])
    ELSE Ok(set_tail([entry EXCEPT !.arguments = args.val],
                     parse_tail(args.rest, {"-1", "?"})))

\* parse_strace_line after the syscall name
call_after_name(p, name) ==
    IF ~name.ok THEN Err("InvalidSyscall", "Failed to parse syscall name")
    ELSE call_after_arguments(entry_for(p, name.val), parse_arguments(name.rest))

\* parse_strace_line after the prefix
line_after_prefix(p) ==
    IF StartsWith(TrimStart(p.rest), "<...")
    THEN parse_resumed_line(p.val.pid, p.val.timestamp, p.rest)
    ELSE call_after_name(p.val, parse_syscall_name(p.rest))

parse_strace_line(line) ==
    IF Contains(line, "+++") THEN parse_exit_line(line)
    ELSE IF Contains(line, "---") THEN parse_signal_line(line)
    ELSE line_after_prefix(parse_prefix(line))

-----------------------------------------------------------------------------
(* src/parser/backtrace_parser.rs *)

\* parse_function_info: the content of the parentheses, split at the first '+'
function_and_offset(content) ==
    IF Find(content, "+") # -1
    THEN [function |-> Slice(content, 0, Find(content, "+")),
          offset   |-> Some(From(content, Find(content, "+") + 1))]
    ELSE [function |-> content, offset |-> None]

\* parse_function_info: '(' take_until(")") ')'
parse_function_info(s) ==
    IF ~StartsWith(s, "(") \/ Find(s, ")") = -1 THEN Fail
    ELSE Done(From(s, Find(s, ")") + 1), function_and_offset(Slice(s, 1, Find(s, ")"))))

\* space0 '['
address_open(s) == lit(s, span0(s, 0, SpaceTab), "[")

\* the closing ']' after the hex digits, which end at offset e
address_of(s, a, e) ==
    IF lit(s, e, "]") = -1 THEN Fail ELSE Done(From(s, e + 1), Slice(s, a, e))

\* parse_address: space0 '[' "0x" hexdigit+ ']'
parse_address(s) ==
    address_of(s, address_open(s), span1(s, lit(s, address_open(s), "0x"), HexDigits))

\* take_until_any(&['(', '['])
take_until_any(s, chars) ==
    IF SpanUntil(s, chars) = 0 THEN Fail
    ELSE Done(From(s, SpanUntil(s, chars)), Slice(s, 0, SpanUntil(s, chars)))

\* BacktraceFrame { .. }; the address stays empty when parse_address fails
NewFrame(binary, function, offset, addr) ==
    [binary   |-> Trim(binary),
     function |-> function,
     offset   |-> offset,
     address  |-> IF addr.ok THEN addr.val ELSE "",
     resolved |-> None]

\* parse_frame when the rest starts with '(': fi is parse_function_info(rest)
frame_with_function(bin, fi) ==
    IF fi.ok
    THEN Done("", NewFrame(bin.val, Some(fi.val.function), fi.val.offset,
                           parse_address(fi.rest)))
    ELSE Done("", NewFrame(bin.val, None, None, parse_address(bin.rest)))

\* parse_frame after the binary path
frame_after_binary(bin) ==
    IF ~bin.ok THEN Fail
    ELSE IF StartsWith(bin.rest, "(")
    THEN frame_with_function(bin, parse_function_info(bin.rest))
    ELSE Done("", NewFrame(bin.val, None, None, parse_address(bin.rest)))

parse_frame(s) == frame_after_binary(take_until_any(s, {"(", "["}))

\* .map(|(_, frame)| frame).map_err(..)
frame_result(f) ==
    IF f.ok THEN Ok(f.val) ELSE Err("InvalidBacktrace", "Failed to parse frame")

parse_backtrace_line(line) ==
    IF ~StartsWith(TrimStart(line), ">")
    THEN Err("InvalidBacktrace", "Line doesn't start with '>'")
    ELSE frame_result(parse_frame(TrimStart(From(TrimStart(line), 1))))

-----------------------------------------------------------------------------
(* The lines a trace may hold: the input of parse_lines is any sequence of  *)
(* at most MaxLines of them.                                                *)

Catalog ==
    << "1 write(1, \"x\", 1) = 1",
       "1 read(0 <unfinished ...>",
       "1 <... read resumed>, \"d\", 4) = 4 <0.01>",
       "2 read(3 <unfinished ...>",
       "2 <... read resumed>) = -1 EINTR (Interrupted)",
       " > /lib/c.so(f+0x1e) [0x10e5]",
       " > /lib/c.so(g)",
       " > [0x10e5]",
       "1 ???",
       "  " >>

LineIds == 1..Len(Catalog)

MaxLines == 4

\* line.trim().is_empty()
is_blank(line) == Trim(line) = ""

\* line.trim_start().starts_with(">")
is_backtrace(line) == StartsWith(TrimStart(line), ">")

\* how the loop of parse_lines treats each catalogue line, and what the line
\* parser or the backtrace parser returns for it
LineKind ==
    [i \in LineIds |->
        IF is_blank(Catalog[i]) THEN "blank"
        ELSE IF is_backtrace(Catalog[i]) THEN "backtrace"
        ELSE "event"]

ParsedLine ==
    [i \in LineIds |->
        IF LineKind[i] = "event" THEN parse_strace_line(Catalog[i]) ELSE Ok(None)]

ParsedFrame ==
    [i \in LineIds |->
        IF LineKind[i] = "backtrace" THEN parse_backtrace_line(Catalog[i]) ELSE Ok(None)]

-----------------------------------------------------------------------------
(* src/parser/mod.rs: StraceParser::parse_lines *)

\* ParseErrorAt counting lines from 0
ParseErrorAt_zero_based(n, e) == [line |-> n - 1, kind |-> e.kind, msg |-> e.msg]

\* (self.line_number, e)
ParseErrorAt(n, e) == [line |-> n, kind |-> e.kind, msg |-> e.msg]

\* entry.backtrace.push(frame)
push_frame(entry, frame) == [entry EXCEPT !.backtrace = Append(@, frame)]

\* merge_resumed without `unfinished.is_unfinished = false`
merge_resumed_keeps_unfinished(unf, entry) ==
    [unf EXCEPT !.return_value = entry.return_value,
                !.errno = entry.errno,
                !.duration = entry.duration,
                !.is_resumed = FALSE]

\* the assignments that complete a previously unfinished syscall
merge_resumed(unf, entry) ==
    [unf EXCEPT !.return_value = entry.return_value,
                !.errno = entry.errno,
                !.duration = entry.duration,
                !.is_resumed = FALSE,
                !.is_unfinished = FALSE]

\* HashMap::insert
map_insert(m, k, v) == [x \in DOMAIN m \cup {k} |-> IF x = k THEN v ELSE m[x]]

\* HashMap::get in place of HashMap::remove: the key stays
map_remove_keeps_key(m, k) == m

\* HashMap::remove
map_remove(m, k) == [x \in DOMAIN m \ {k} |-> m[x]]

\* the entries parse_lines would return if the input ended here, in order
AllEntries == entries \o current_entry

\* StraceParser::new(), no line read
ParserIdle ==
    /\ input = <<>>
    /\ entries = <<>>
    /\ current_entry = None
    /\ unfinished = <<>>
    /\ errors = <<>>
    /\ line_number = 0
    /\ origin = <<>>

\* Addr2LineResolver::new(), no frame resolved yet
ResolverIdle ==
    /\ resolver = [loaders |-> {}, cache |-> <<>>]
    /\ last_frame = None
    /\ calls = <<>>

\* no pure function is being applied
PureIdle ==
    /\ text = ""
    /\ shape = None
    /\ result = None

\* ProcessGraph::build has not been called
GraphIdle ==
    /\ build_entries = <<>>
    /\ pid_first_seen = <<>>
    /\ pid_last_seen = <<>>
    /\ fork_relationships = <<>>
    /\ pids_ordered = <<>>
    /\ event_index = 0
    /\ free_columns = <<>>
    /\ max_columns = 0
    /\ processes = <<>>

\* App::new has not been called
AppIdle == app = None /\ keys = 0

\* the parts of the program a specification does not exercise
IdleOutsideParser == PureIdle /\ ResolverIdle /\ GraphIdle /\ AppIdle

IdleOutsidePure == ParserIdle /\ ResolverIdle /\ GraphIdle /\ AppIdle

IdleOutsideResolver == ParserIdle /\ PureIdle /\ GraphIdle /\ AppIdle

IdleOutsideGraph == ParserIdle /\ PureIdle /\ ResolverIdle /\ AppIdle

IdleOutsideApp == ParserIdle /\ PureIdle /\ ResolverIdle /\ GraphIdle

\* StraceParser::new(), then the locals of parse_lines
Init ==
    /\ pc = "parse"
    /\ ParserIdle
    /\ IdleOutsideParser

\* the iterator yields line i: self.line_number += 1
Yield(i) ==
    /\ pc = "parse"
    /\ line_number < MaxLines
    /\ line_number' = line_number + 1
    /\ input' = Append(input, i)
    /\ UNCHANGED outside_parser

\* an empty line is skipped
EmptyLine(i) ==
    /\ LineKind[i] = "blank"
    /\ Yield(i)
    /\ UNCHANGED <<pc, entries, current_entry, unfinished, errors, origin>>

\* match parse_backtrace_line(&line), with an entry open
attach_frame(f) ==
    IF f.ok
    THEN /\ current_entry' = Some(push_frame(current_entry[1], f.val))
         /\ UNCHANGED errors
    ELSE /\ errors' = Append(errors, ParseErrorAt(line_number + 1, f))
         /\ UNCHANGED current_entry

\* a backtrace line: the frame goes to the open entry, if there is one
BacktraceLine(i) ==
    /\ LineKind[i] = "backtrace"
    /\ Yield(i)
    /\ IF IsSome(current_entry)
       THEN attach_frame(ParsedFrame[i])
       ELSE UNCHANGED <<current_entry, errors>>
    /\ UNCHANGED <<pc, entries, unfinished, origin>>

\* the entry becomes the open entry
open_entry(entry) ==
    /\ entries' = AllEntries
    /\ current_entry' = Some(entry)
    /\ origin' = Append(origin, line_number + 1)

\* a resumed line whose pid is in the table: entries.get_mut(idx).unwrap()
complete_unfinished(entry, idx) ==
    /\ IF idx < Len(AllEntries)
       THEN /\ entries' = [AllEntries EXCEPT ![idx + 1] = merge_resumed(@, entry)]
            /\ UNCHANGED pc
       ELSE /\ entries' = AllEntries
            /\ pc' = "panic"
    /\ unfinished' = map_remove(unfinished, entry.pid)
    /\ current_entry' = None
    /\ UNCHANGED <<errors, origin>>

\* Ok(entry) => ..
handle_entry(entry) ==
    IF entry.is_unfinished
    THEN /\ unfinished' = map_insert(unfinished, entry.pid, Len(AllEntries))
         /\ open_entry(entry)
         /\ UNCHANGED <<pc, errors>>
    ELSE IF entry.is_resumed /\ entry.pid \in DOMAIN unfinished
    THEN complete_unfinished(entry, unfinished[entry.pid])
    ELSE IF entry.is_resumed
    THEN /\ errors' = Append(errors,
                 ParseErrorAt(line_number + 1,
                              Err("InvalidFormat", "resumed without unfinished")))
         /\ open_entry(entry)
         /\ UNCHANGED <<pc, unfinished>>
    ELSE /\ open_entry(entry)
         /\ UNCHANGED <<pc, unfinished, errors>>

\* match parse_strace_line(&line), after the open entry was finalized
handle_parsed(r) ==
    IF r.ok THEN handle_entry(r.val)
    ELSE /\ errors' = Append(errors, ParseErrorAt(line_number + 1, r))
         /\ entries' = AllEntries
         /\ current_entry' = None
         /\ UNCHANGED <<pc, unfinished, origin>>

\* any other line: the open entry is finalized, then the line is parsed
EventLine(i) ==
    /\ LineKind[i] = "event"
    /\ Yield(i)
    /\ handle_parsed(ParsedLine[i])

\* the input ends: the last entry is pushed and Ok(entries) returned
Finish ==
    /\ pc = "parse"
    /\ entries' = AllEntries
    /\ current_entry' = None
    /\ pc' = "done"
    /\ UNCHANGED <<input, unfinished, errors, line_number, origin, outside_parser>>

Next ==
    \/ \E i \in LineIds : EmptyLine(i)
    \/ \E i \in LineIds : BacktraceLine(i)
    \/ \E i \in LineIds : EventLine(i)
    \/ Finish

Spec == Init /\ [][Next]_vars

\* parse_lines is called again on the same StraceParser: `entries` and
\* `current_entry` are new locals, while self.unfinished, self.errors and
\* self.line_number are what the call before left
ParseAgain ==
    /\ pc = "done"
    /\ line_number < MaxLines
    /\ pc' = "parse"
    /\ input' = <<>>
    /\ entries' = <<>>
    /\ current_entry' = None
    /\ origin' = <<>>
    /\ UNCHANGED <<unfinished, errors, line_number, outside_parser>>

NextReuse ==
    \/ Next
    \/ ParseAgain

\* one StraceParser used for any number of parse_lines calls
SpecReuse == Init /\ [][NextReuse]_vars

-----------------------------------------------------------------------------
(* parse_strace_line on one line composed of a prefix and a body, for every  *)
(* prefix dialect: PID and timestamp, timestamp only, PID only, none.        *)

\* a PID as strace -f prints it, with the space1 after it, and its value
PidPrefixes ==
    {[text |-> "12311 ", value |-> 12311],
     [text |-> "7193  ", value |-> 7193],
     [text |-> "1\t", value |-> 1]}

NoPid == [text |-> "", value |-> 0]

\* a timestamp as strace -t / -tt prints it
Timestamps == {"12:59:24", "11:52:10.217868", "1:2:3"}

\* what follows the prefix, with the syscall name the source's tests expect
\* ("" for a body the line parser rejects)
Bodies ==
    {[text |-> "brk(NULL) = 0x55772af19000", name |-> "brk"],
     [text |-> "access(\"/etc/ld.so.preload\", R_OK) = -1 ENOENT (No such file or directory)",
      name |-> "access"],
     [text |-> "read(0 <unfinished ...>", name |-> "read"],
     [text |-> "<... wait4 resumed>, [{WIFEXITED(s) && WEXITSTATUS(s) == 0}], 0, NULL) = 24983",
      name |-> "wait4"],
     [text |-> "+++ exited with 3 +++", name |-> "exit"],
     [text |-> "+++ killed by SIGKILL +++", name |-> "exit"],
     [text |-> "--- SIGINT {si_signo=SIGINT, si_code=SI_USER} ---", name |-> "signal"],
     [text |-> "exit_group(0) = ?", name |-> "exit_group"],
     [text |-> "???", name |-> ""]}

LineShapes ==
    [pid : PidPrefixes \cup {NoPid}, timestamp : Timestamps \cup {""}, body : Bodies]

\* the line of a shape: the PID if any, the timestamp if any and a space, the body
LineOf(sh) ==
    sh.pid.text \o (IF sh.timestamp = "" THEN "" ELSE sh.timestamp \o " ") \o sh.body.text

InitLine ==
    /\ pc = "line"
    /\ shape \in LineShapes
    /\ text = LineOf(shape)
    /\ result = None
    /\ IdleOutsidePure

\* parse_strace_line(&line)
ParseLine ==
    /\ pc = "line"
    /\ result' = parse_strace_line(text)
    /\ pc' = "lexed"
    /\ UNCHANGED <<text, shape, outside_pure>>

NextLine == ParseLine

SpecLine == InitLine /\ [][NextLine]_vars

-----------------------------------------------------------------------------
(* parse_strace_line on a regular syscall line whose arguments are composed  *)
(* of at most MaxArgFragments fragments.                                     *)

ArgFragments == {"a", ", ", "(", ")", "{", "}", "[", "]", "\"", "\\\""}

MaxArgFragments == 4

RECURSIVE Join(_)
Join(fs) == IF Len(fs) = 0 THEN "" ELSE Head(fs) \o Join(Tail(fs))

ArgShapes == UNION {[1..n -> ArgFragments] : n \in 0..MaxArgFragments}

InitArgs ==
    /\ pc = "args"
    /\ shape \in ArgShapes
    /\ text = "f(" \o Join(shape) \o ") = 7"
    /\ result = None
    /\ IdleOutsidePure

\* parse_strace_line(&line)
ScanLine ==
    /\ pc = "args"
    /\ result' = parse_strace_line(text)
    /\ pc' = "scanned"
    /\ UNCHANGED <<text, shape, outside_pure>>

NextArgs == ScanLine

SpecArgs == InitArgs /\ [][NextArgs]_vars

-----------------------------------------------------------------------------
(* src/parser/resolver.rs: Addr2LineResolver.  The addr2line crate is the    *)
(* environment: Loader::new succeeds or fails, find_frames fails or yields   *)
(* an iterator over frames, and the iterator may fail part way.              *)

\* one item of the iterator returned by find_frames: a frame (its function,
\* demangled, or None when it has none or demangling fails; its location,
\* whose file, line and column are each optional) or the error that ends it
IterErr == [err |-> TRUE]

RawFrame(function, location) == [err |-> FALSE, function |-> function, location |-> location]

Location(file, line, column) == Some([file |-> file, line |-> line, column |-> column])

RawFrameKinds ==
    {RawFrame(Some("main"), Location(Some("a.c"), Some(3), Some(1))),
     RawFrame(None, Location(Some("b.c"), Some(7), None)),
     RawFrame(Some("f"), Location(Some("??"), None, None)),
     RawFrame(Some("g"), Location(None, Some(5), None)),
     RawFrame(Some("g"), Location(Some("a.c"), None, None)),
     RawFrame(Some("h"), None),
     IterErr}

\* the function name of a kept frame
function_name(item) == UnwrapOr(item.function, "<unknown>")

\* ResolvedFrame { .. } as pushed by the loop, is_inlined still false
NewResolvedFrame(item) ==
    [function   |-> function_name(item),
     file       |-> item.location[1].file[1],
     line       |-> item.location[1].line[1],
     column     |-> item.location[1].column,
     is_inlined |-> FALSE]

\* what the loop does with one frame: "skip" it, "abort" the whole resolution
\* (the `?` on a missing file or line returns None from resolve_address), or
\* "push" it
frame_step(item) ==
    IF item.location = None THEN "skip"
    ELSE IF item.location[1].file = Some("??") THEN "skip"
    ELSE IF item.location[1].file = None THEN "abort"
    ELSE IF item.location[1].line = None THEN "abort"
    ELSE "push"

RECURSIVE collect_frames(_, _, _)
\* the loop over frames_iter from item i on, resolved_frames being acc: the
\* frames collected, or aborted
collect_frames(items, i, acc) ==
    IF i > Len(items) THEN [aborted |-> FALSE, frames |-> acc]
    ELSE IF items[i].err THEN [aborted |-> FALSE, frames |-> acc]
    ELSE IF frame_step(items[i]) = "skip" THEN collect_frames(items, i + 1, acc)
    ELSE IF frame_step(items[i]) = "abort" THEN [aborted |-> TRUE, frames |-> <<>>]
    ELSE collect_frames(items, i + 1, Append(acc, NewResolvedFrame(items[i])))

\* mark_inlined marking no frame
mark_inlined_none(frames) == frames

\* mark all but the last as inlined
mark_inlined(frames) ==
    [k \in 1..Len(frames) |-> [frames[k] EXCEPT !.is_inlined = (k < Len(frames))]]

\* the end of resolve_address: None when nothing was kept
found_result(c) ==
    IF c.aborted THEN None
    ELSE IF Len(c.frames) = 0 THEN None
    ELSE Some(mark_inlined(c.frames))

\* the match on loader.find_frames(address): found is Err or Ok(iterator)
resolve_found(found) ==
    IF ~found.ok THEN None ELSE found_result(collect_frames(found.val, 1, <<>>))

MaxRawFrames == 2

RawIterators == UNION {[1..n -> RawFrameKinds] : n \in 0..MaxRawFrames}

FindResults == {Err("find_frames", "")} \cup {Ok(it) : it \in RawIterators}

InitFrames ==
    /\ pc = "found"
    /\ shape \in FindResults
    /\ text = ""
    /\ result = None
    /\ IdleOutsidePure

\* match loader.find_frames(address) { .. }
CollectFrames ==
    /\ pc = "found"
    /\ result' = resolve_found(shape)
    /\ pc' = "collected"
    /\ UNCHANGED <<text, shape, outside_pure>>

NextFrames == CollectFrames

SpecFrames == InitFrames /\ [][NextFrames]_vars

-----------------------------------------------------------------------------
(* resolve_frame called on frames of a fixed file system: one binary with    *)
(* debug information, one stripped library, one path that cannot be loaded.  *)

Binaries == {"/bin/app", "/lib/s.so:1", "/missing"}

Addresses == {"0x10", "0x20", "0x30", ""}

MaxResolves == 3

\* addr2line::Loader::new(binary) succeeds
Loader_new(binary) == binary # "/missing"

\* loader.find_frames(address) in this file system
find_frames(binary, address) ==
    IF binary # "/bin/app"
    THEN Ok(<<RawFrame(Some("f"), Location(Some("??"), None, None))>>)
    ELSE IF address = 16
    THEN Ok(<<RawFrame(Some("main"), Location(Some("a.c"), Some(3), Some(1)))>>)
    ELSE IF address = 32
    THEN Ok(<<RawFrame(None, Location(Some("b.c"), Some(7), None)),
              RawFrame(Some("main"), Location(Some("a.c"), Some(3), Some(1)))>>)
    ELSE IF address = 48
    THEN Ok(<<RawFrame(Some("g"), Location(Some("a.c"), None, None)),
              RawFrame(Some("main"), Location(Some("a.c"), Some(3), Some(1)))>>)
    ELSE Ok(<<>>)

HexDigitValue(c) ==
    IF c \in Digits THEN DigitValue(c)
    ELSE CASE c \in {"a", "A"} -> 10 [] c \in {"b", "B"} -> 11 [] c \in {"c", "C"} -> 12
           [] c \in {"d", "D"} -> 13 [] c \in {"e", "E"} -> 14 [] c \in {"f", "F"} -> 15

RECURSIVE HexValue(_)
\* the value of a string of hexadecimal digits
HexValue(s) ==
    IF Len(s) = 0 THEN 0
    ELSE 16 * HexValue(Slice(s, 0, Len(s) - 1)) + HexDigitValue(CharAt(s, Len(s) - 1))

\* address_str.strip_prefix("0x").unwrap_or(address_str)
strip_0x(s) == IF StartsWith(s, "0x") THEN From(s, 2) ELSE s

\* u64::from_str_radix(address_str, 16).ok(), for addresses below 2^31 (the
\* model's addresses have at most two digits)
from_str_radix_16(s) ==
    IF Len(s) = 0 \/ SpanLen(s, HexDigits) # Len(s) THEN None ELSE Some(HexValue(s))

\* cache_key made of the binary alone
cache_key_binary_only(binary, address) == binary

\* format!("{}:{}", frame.binary, frame.address)
cache_key(binary, address) == binary \o ":" \o address

\* an entry of the history
Call(op, binary, address) == [op |-> op, binary |-> binary, address |-> address]

\* get_loader: the loaders afterwards
loaders_after(res, binary) ==
    IF binary \in res.loaders \/ ~Loader_new(binary) THEN res.loaders
    ELSE res.loaders \cup {binary}

\* get_loader: what it asks of addr2line
get_loader_calls(res, binary) ==
    IF binary \in res.loaders THEN <<>> ELSE <<Call("Loader::new", binary, "")>>

\* resolve_address once it has a loader
resolve_with_loader(binary, address) ==
    IF from_str_radix_16(strip_0x(address)) = None
    THEN [resolved |-> None, calls |-> <<>>]
    ELSE [resolved |-> resolve_found(find_frames(binary, from_str_radix_16(strip_0x(address))[1])),
          calls    |-> <<Call("find_frames", binary, address)>>]

\* resolve_address: the result and what it asked of addr2line
resolve_address(res, binary, address) ==
    IF binary \notin loaders_after(res, binary)
    THEN [resolved |-> None, calls |-> get_loader_calls(res, binary)]
    ELSE [resolved |-> resolve_with_loader(binary, address).resolved,
          calls    |-> get_loader_calls(res, binary)
                       \o resolve_with_loader(binary, address).calls]

\* the frame handed to resolve_frame
FrameOf(binary, address) ==
    [binary |-> binary, function |-> None, offset |-> None, address |-> address,
     resolved |-> None]

\* the calls of resolve_frame so far
Requests == SelectSeq(calls, LAMBDA c : c.op = "resolve_frame")

\* resolve_frame on a cache hit
resolve_cached(binary, address) ==
    /\ last_frame' = Some([FrameOf(binary, address) EXCEPT
                              !.resolved = resolver.cache[cache_key(binary, address)]])
    /\ calls' = Append(calls, Call("resolve_frame", binary, address))
    /\ UNCHANGED resolver

\* resolve_frame on a cache miss: r is resolve_address(..)
resolve_missed(binary, address, r) ==
    /\ resolver' = [loaders |-> loaders_after(resolver, binary),
                    cache   |-> map_insert(resolver.cache, cache_key(binary, address),
                                           r.resolved)]
    /\ last_frame' = Some([FrameOf(binary, address) EXCEPT !.resolved = r.resolved])
    /\ calls' = Append(calls, Call("resolve_frame", binary, address)) \o r.calls

\* resolver.resolve_frame(&mut frame)
ResolveFrame(binary, address) ==
    /\ pc = "resolve"
    /\ Len(Requests) < MaxResolves
    /\ IF cache_key(binary, address) \in DOMAIN resolver.cache
       THEN resolve_cached(binary, address)
       ELSE resolve_missed(binary, address, resolve_address(resolver, binary, address))
    /\ UNCHANGED <<pc, outside_resolver>>

InitResolver ==
    /\ pc = "resolve"
    /\ ResolverIdle
    /\ IdleOutsideResolver

NextResolver == \E binary \in Binaries, address \in Addresses : ResolveFrame(binary, address)

SpecResolver == InitResolver /\ [][NextResolver]_vars

-----------------------------------------------------------------------------
(* src/tui/process_graph.rs: ProcessGraph::build and render_graph_for_entry. *)
(* The two HashMaps of the first pass are iterated in an order the program   *)
(* does not control (std's RandomState): any permutation of their keys.      *)

GRAPH_COLORS ==
    <<"Blue", "Green", "Yellow", "Magenta", "Cyan", "LightBlue", "LightGreen",
      "LightMagenta">>

is_fork_syscall(syscall_name) == syscall_name \in {"fork", "vfork", "clone", "clone3"}

is_wait_syscall(syscall_name) == syscall_name \in {"wait4", "waitid", "waitpid"}

\* entry.return_value parsed as a PID: ret.trim().parse::<u32>() > 0
returned_pid(entry) ==
    IF entry.return_value = None THEN None
    ELSE IF ParseUnsigned(Trim(entry.return_value[1])) \in {None, Some(0)} THEN None
    ELSE ParseUnsigned(Trim(entry.return_value[1]))

\* the child PID of a fork entry that returned one
forked_child(entry) ==
    IF is_fork_syscall(entry.syscall_name) THEN returned_pid(entry) ELSE None

\* the PID returned by a wait entry
waited_for(entry) ==
    IF is_wait_syscall(entry.syscall_name) THEN returned_pid(entry) ELSE None

\* HashMap::entry(k).or_insert(v)
or_insert(m, k, v) == IF k \in DOMAIN m THEN m ELSE map_insert(m, k, v)

\* first pass: pid_first_seen after entry idx
first_seen_step(first, idx, entry) ==
    IF forked_child(entry) = None THEN or_insert(first, entry.pid, idx)
    ELSE or_insert(or_insert(first, entry.pid, idx), forked_child(entry)[1], idx)

\* first pass: the PIDs whose pid_last_seen entry idx sets
last_seen_at(entry) ==
    {entry.pid} \cup {p[1] : p \in {forked_child(entry), waited_for(entry)} \ {None}}

\* first pass: pid_last_seen after entry idx
last_seen_step(last, idx, entry) ==
    [x \in DOMAIN last \cup last_seen_at(entry) |->
        IF x \in last_seen_at(entry) THEN idx ELSE last[x]]

\* first pass: fork_relationships after entry idx
forks_step(forks, idx, entry) ==
    IF forked_child(entry) = None THEN forks
    ELSE Append(forks, <<idx, entry.pid, forked_child(entry)[1]>>)

RECURSIVE first_seen_after(_, _)
\* first pass: pid_first_seen after the first n entries (idx is 0-based)
first_seen_after(es, n) ==
    IF n = 0 THEN <<>> ELSE first_seen_step(first_seen_after(es, n - 1), n - 1, es[n])

RECURSIVE last_seen_after(_, _)
\* first pass: pid_last_seen after the first n entries
last_seen_after(es, n) ==
    IF n = 0 THEN <<>> ELSE last_seen_step(last_seen_after(es, n - 1), n - 1, es[n])

RECURSIVE forks_after(_, _)
\* first pass: fork_relationships after the first n entries
forks_after(es, n) ==
    IF n = 0 THEN <<>> ELSE forks_step(forks_after(es, n - 1), n - 1, es[n])

\* the orders in which a HashMap may yield the keys of m
IterationOrders(m) ==
    {o \in [1..Cardinality(DOMAIN m) -> DOMAIN m] :
        \A i, j \in 1..Cardinality(DOMAIN m) : i # j => o[i] # o[j]}

\* (pid, idx, end) for the keys of m in the order o
events_of(m, o, end) == [i \in 1..Len(o) |-> [pid |-> o[i], idx |-> m[o[i]], end |-> end]]

RECURSIVE sort_by_idx(_, _, _)
\* sort_by_key(first_idx) is stable: the events of index k, k + 1, .. below n, each
\* group in the order of `chain`
sort_by_idx(chain, k, n) ==
    IF k >= n THEN <<>>
    ELSE SelectSeq(chain, LAMBDA e : e.idx = k) \o sort_by_idx(chain, k + 1, n)

\* ordered_events with the end events chained before the start events
ordered_events_ends_first(order_first, order_last) ==
    sort_by_idx(events_of(pid_last_seen, order_last, TRUE)
                    \o events_of(pid_first_seen, order_first, FALSE),
                0, Len(build_entries))

\* ordered_events left in the order of `chain`, without the sort
ordered_events_unsorted(order_first, order_last) ==
    events_of(pid_first_seen, order_first, FALSE)
        \o events_of(pid_last_seen, order_last, TRUE)

\* pids_ordered for the iteration orders of pid_first_seen and pid_last_seen
ordered_events(order_first, order_last) ==
    sort_by_idx(events_of(pid_first_seen, order_first, FALSE)
                    \o events_of(pid_last_seen, order_last, TRUE),
                0, Len(build_entries))

RECURSIVE insert_sorted(_, _)
insert_sorted(sorted, x) ==
    IF Len(sorted) = 0 THEN <<x>>
    ELSE IF x <= Head(sorted) THEN <<x>> \o sorted
    ELSE <<Head(sorted)>> \o insert_sorted(Tail(sorted), x)

\* free_columns left in the order the lanes were freed
sort_unstable_not_at_all(xs) == xs

RECURSIVE sort_unstable(_)
\* free_columns.sort_unstable()
sort_unstable(xs) ==
    IF Len(xs) = 0 THEN <<>> ELSE insert_sorted(sort_unstable(Tail(xs)), Head(xs))

\* the parent of a fork child: the first fork relationship naming it
parent_of(forks, pid) ==
    IF \E i \in 1..Len(forks) : forks[i][3] = pid
    THEN Some(forks[SetMin({i \in 1..Len(forks) : forks[i][3] = pid})][2])
    ELSE None

\* ProcessInfo { .. }
NewProcessInfo(pid, column, index, idx) ==
    [pid             |-> pid,
     column          |-> column,
     color           |-> GRAPH_COLORS[(index % Len(GRAPH_COLORS)) + 1],
     first_entry_idx |-> idx,
     last_entry_idx  |-> IF pid \in DOMAIN pid_last_seen THEN pid_last_seen[pid] ELSE idx,
     parent_pid      |-> parent_of(fork_relationships, pid)]

\* the graph-relevant part of a SyscallEntry
GraphEntry(pid, syscall_name, ret) ==
    [NewEntry(pid, "", syscall_name) EXCEPT !.return_value = Some(ret)]

\* the entries a trace is made of: three processes that write, fork and wait
GraphEntryKinds ==
    {GraphEntry(1, "write", "5"), GraphEntry(2, "write", "5"), GraphEntry(3, "write", "5"),
     GraphEntry(1, "clone3", "2"), GraphEntry(1, "clone", "3"), GraphEntry(2, "fork", "3"),
     GraphEntry(1, "wait4", "2")}

MaxGraphEntries == 4

InitGraph ==
    /\ pc = "build"
    /\ build_entries \in UNION {[1..n -> GraphEntryKinds] : n \in 0..MaxGraphEntries}
    /\ pid_first_seen = <<>>
    /\ pid_last_seen = <<>>
    /\ fork_relationships = <<>>
    /\ pids_ordered = <<>>
    /\ event_index = 0
    /\ free_columns = <<>>
    /\ max_columns = 0
    /\ processes = <<>>
    /\ IdleOutsideGraph

\* what the second pass leaves alone
first_pass_vars == <<build_entries, pid_first_seen, pid_last_seen, fork_relationships>>

\* the first pass: the lifetimes of all PIDs and the fork relationships
FirstPass ==
    /\ pc = "build"
    /\ pid_first_seen' = first_seen_after(build_entries, Len(build_entries))
    /\ pid_last_seen' = last_seen_after(build_entries, Len(build_entries))
    /\ fork_relationships' = forks_after(build_entries, Len(build_entries))
    /\ pc' = "collect"
    /\ UNCHANGED <<build_entries, pids_ordered, event_index, free_columns, max_columns,
                   processes, outside_graph>>

\* pids_ordered is collected from the two maps, each iterated in some order,
\* and sorted
CollectEvents(order_first, order_last) ==
    /\ pc = "collect"
    /\ pids_ordered' = ordered_events(order_first, order_last)
    /\ pc' = "assign"
    /\ UNCHANGED <<first_pass_vars, event_index, free_columns, max_columns, processes,
                   outside_graph>>

\* second pass, an end event: the column of the PID is freed
EndEvent ==
    /\ pc = "assign"
    /\ event_index < Len(pids_ordered)
    /\ pids_ordered[event_index + 1].end
    /\ free_columns' =
          IF pids_ordered[event_index + 1].pid \in DOMAIN processes
          THEN Append(free_columns, processes[pids_ordered[event_index + 1].pid].column)
          ELSE free_columns
    /\ event_index' = event_index + 1
    /\ UNCHANGED <<pc, first_pass_vars, pids_ordered, max_columns, processes, outside_graph>>

\* second pass, a start event given the column it takes
assign_column(e, column) ==
    processes' = map_insert(processes, e.pid,
                            NewProcessInfo(e.pid, column, event_index, e.idx))

\* second pass, a start event: the smallest free column or a new one
StartEvent ==
    /\ pc = "assign"
    /\ event_index < Len(pids_ordered)
    /\ ~pids_ordered[event_index + 1].end
    /\ IF Len(free_columns) > 0
       THEN /\ free_columns' = Tail(sort_unstable(free_columns))
            /\ assign_column(pids_ordered[event_index + 1], Head(sort_unstable(free_columns)))
            /\ UNCHANGED max_columns
       ELSE /\ free_columns' = free_columns
            /\ assign_column(pids_ordered[event_index + 1], max_columns)
            /\ max_columns' = max_columns + 1
    /\ event_index' = event_index + 1
    /\ UNCHANGED <<pc, first_pass_vars, pids_ordered, outside_graph>>

\* the loop is over: ProcessGraph { processes, max_columns, enabled }
ReturnGraph ==
    /\ pc = "assign"
    /\ event_index = Len(pids_ordered)
    /\ pc' = "built"
    /\ UNCHANGED <<graph_vars, outside_graph>>

\* enabled: the graph is hidden when there is only one process
enabled == max_columns > 1

NextGraph ==
    \/ FirstPass
    \/ /\ pc = "collect"
       /\ \E order_first \in IterationOrders(pid_first_seen),
             order_last \in IterationOrders(pid_last_seen) :
               CollectEvents(order_first, order_last)
    \/ EndEvent
    \/ StartEvent
    \/ ReturnGraph

SpecGraph == InitGraph /\ [][NextGraph]_vars

\* ProcessGraph::get_color
get_color(pid) ==
    IF pid \in DOMAIN processes THEN processes[pid].color ELSE "White"

\* ProcessGraph::get_color_for_column
get_color_for_column(column) == GRAPH_COLORS[(column % Len(GRAPH_COLORS)) + 1]

\* is_active_at(column, entry_idx)
is_active_at(column, entry_idx) ==
    \E p \in DOMAIN processes :
        /\ processes[p].column = column
        /\ entry_idx >= processes[p].first_entry_idx
        /\ entry_idx <= processes[p].last_entry_idx

\* self.processes.get(&pid).map(|p| p.column).unwrap_or(0)
column_of(pid) == IF pid \in DOMAIN processes THEN processes[pid].column ELSE 0

\* the first argument parsed as a PID: arguments.split(',').next()
first_argument_pid(entry) ==
    ParseUnsigned(Trim(Slice(entry.arguments, 0, SpanUntil(entry.arguments, {","}))))

\* a candidate of waited_pid after .filter(|&waited| waited > 0 && waited != pid)
other_pid(candidate, pid) ==
    IF candidate \in {None, Some(0), Some(pid)} THEN None ELSE candidate

\* waited_pid: the return value, or else the first argument
waited_pid(entry) ==
    IF ~is_wait_syscall(entry.syscall_name) THEN None
    ELSE IF entry.return_value # None
            /\ other_pid(ParseUnsigned(Trim(entry.return_value[1])), entry.pid) # None
    THEN other_pid(ParseUnsigned(Trim(entry.return_value[1])), entry.pid)
    ELSE other_pid(first_argument_pid(entry), entry.pid)

\* the glyphs of the graph: '*', U+2502 (vertical), U+2500 (horizontal),
\* U+2510 (fork corner), U+2518 (wait corner), ' '
GlyphHere == "*"

GlyphVertical == "|"

GlyphHorizontal == "-"

GlyphFork == "fork-corner"

GlyphWait == "wait-corner"

GlyphNone == " "

\* a column of a fork or wait row: the entry's process is in current_column,
\* the other process in other_column, whose glyph is `corner`
joined_glyph(col, entry_idx, current_column, other_column, corner) ==
    IF col = current_column THEN GlyphHere
    ELSE IF (col > current_column /\ col < other_column)
            \/ (col > other_column /\ col < current_column) THEN GlyphHorizontal
    ELSE IF col = other_column THEN corner
    ELSE IF is_active_at(col, entry_idx) THEN GlyphVertical
    ELSE GlyphNone

\* a column of a normal row
plain_glyph(col, entry_idx, current_column) ==
    IF col = current_column THEN GlyphHere
    ELSE IF is_active_at(col, entry_idx) THEN GlyphVertical
    ELSE GlyphNone

\* the glyph of column col (0-based)
glyph_at(col, entry_idx, entry) ==
    IF forked_child(entry) # None
    THEN joined_glyph(col, entry_idx, column_of(entry.pid),
                      column_of(forked_child(entry)[1]), GlyphFork)
    ELSE IF waited_pid(entry) # None
    THEN joined_glyph(col, entry_idx, column_of(entry.pid),
                      column_of(waited_pid(entry)[1]), GlyphWait)
    ELSE plain_glyph(col, entry_idx, column_of(entry.pid))

\* render_graph_for_entry(entry_idx, entry): the glyph and the colour of each column
render_graph_for_entry(entry_idx, entry) ==
    IF ~enabled THEN <<>>
    ELSE [c \in 1..max_columns |->
            <<glyph_at(c - 1, entry_idx, entry),
              GRAPH_COLORS[((c - 1) % Len(GRAPH_COLORS)) + 1]>>]

-----------------------------------------------------------------------------
(* src/tui/app.rs: App, its display lines and its key handlers;             *)
(* src/tui/ui.rs: draw_list; src/tui/mod.rs: run_app.                       *)
(* The App is a record and every method taking &mut self an operator from   *)
(* the App before the call to the App after it.  Indices are 0-based as in  *)
(* the source: line i of display_lines is display_lines[i + 1] here.        *)
(* Of a display line the model keeps the variant and its indices; the       *)
(* attributes that only serve rendering (tree_prefix, is_hidden,            *)
(* is_search_match) are left out, and so are App's summary, file_path and   *)
(* process_graph.  The resolver is the fixed file system of SpecResolver.   *)

\* usize::saturating_sub
saturating_sub(x, y) == IF x >= y THEN x - y ELSE 0

\* Ord::min
min(x, y) == IF x <= y THEN x ELSE y

SetMax(S) == CHOOSE m \in S : \A n \in S : m >= n

\* Iterator::position
position(s, P(_)) ==
    IF \E i \in 1..Len(s) : P(s[i])
    THEN Some(SetMin({i \in 1..Len(s) : P(s[i])}) - 1)
    ELSE None

\* Iterator::rposition
rposition(s, P(_)) ==
    IF \E i \in 1..Len(s) : P(s[i])
    THEN Some(SetMax({i \in 1..Len(s) : P(s[i])}) - 1)
    ELSE None

\* str::to_lowercase on ASCII text
LowerOf(c) ==
    IF c \in UpperCase
    THEN CharAt("abcdefghijklmnopqrstuvwxyz", Find("ABCDEFGHIJKLMNOPQRSTUVWXYZ", c))
    ELSE c

RECURSIVE to_lowercase(_)
to_lowercase(s) ==
    IF s = "" THEN "" ELSE LowerOf(CharAt(s, 0)) \o to_lowercase(From(s, 1))

\* Display of an unsigned integer
RECURSIVE FormatUnsigned(_)
FormatUnsigned(n) ==
    IF n < 10 THEN CharAt("0123456789", n)
    ELSE FormatUnsigned(n \div 10) \o CharAt("0123456789", n % 10)

\* Display of an i32
FormatI32(n) == IF n < 0 THEN "-" \o FormatUnsigned(0 - n) ELSE FormatUnsigned(n)

\* Display of a bool
FormatBool(b) == IF b THEN "true" ELSE "false"

\* a DisplayLine: the variant, entry_idx, arg_idx or frame_idx, resolved_idx
DisplayLine(kind, entry_idx, idx, resolved_idx) ==
    [kind |-> kind, entry_idx |-> entry_idx, idx |-> idx, resolved_idx |-> resolved_idx]

\* split_arguments: a finished piece is kept when it is not blank
split_push(pieces, current) ==
    IF Trim(current) = "" THEN pieces ELSE Append(pieces, Trim(current))

\* split_arguments: what is returned once the characters are consumed
split_end(args, pieces) ==
    IF pieces = <<>> /\ Trim(args) # "" THEN <<Trim(args)>> ELSE pieces

\* split_arguments: the loop over the characters, i the 0-based offset
RECURSIVE split_loop(_, _, _, _, _, _, _)
split_loop(args, i, pieces, current, depth, in_string, escape_next) ==
    IF i >= Len(args) THEN split_end(args, split_push(pieces, current))
    ELSE IF escape_next
    THEN split_loop(args, i + 1, pieces, current \o CharAt(args, i), depth, in_string, FALSE)
    ELSE IF CharAt(args, i) = "\\"
    THEN split_loop(args, i + 1, pieces, current \o CharAt(args, i), depth, in_string, TRUE)
    ELSE IF CharAt(args, i) = "\""
    THEN split_loop(args, i + 1, pieces, current \o CharAt(args, i), depth, ~in_string, FALSE)
    ELSE IF CharAt(args, i) \in {"(", "{", "["} /\ ~in_string
    THEN split_loop(args, i + 1, pieces, current \o CharAt(args, i), depth + 1, in_string, FALSE)
    ELSE IF CharAt(args, i) \in {")", "}", "]"} /\ ~in_string
    THEN split_loop(args, i + 1, pieces, current \o CharAt(args, i), depth - 1, in_string, FALSE)
    ELSE IF CharAt(args, i) = "," /\ ~in_string /\ depth = 0
    THEN split_loop(args, i + 1, split_push(pieces, current), "", depth, in_string, FALSE)
    ELSE split_loop(args, i + 1, pieces, current \o CharAt(args, i), depth, in_string, FALSE)

split_arguments(args) == split_loop(args, 0, <<>>, "", 0, FALSE, FALSE)

\* SearchState::new
NewSearchState ==
    [active            |-> FALSE,
     query             |-> "",
     matches           |-> <<>>,
     current_match_idx |-> 0,
     original_position |-> 0,
     original_scroll   |-> 0]

\* self.display_lines[i]
line_at(a, i) == a.display_lines[i + 1]

\* self.entries[idx]
entry_at(a, idx) == a.entries[idx + 1]

(* rebuild_display_lines *)

argument_lines(idx, args) ==
    [k \in 1..Len(args) |-> DisplayLine("ArgumentLine", idx, k - 1, 0)]

arguments_lines(a, idx, entry) ==
    IF entry.arguments = "" THEN <<>>
    ELSE <<DisplayLine("ArgumentsHeader", idx, 0, 0)>>
         \o (IF idx \in a.expanded_arguments
             THEN argument_lines(idx, split_arguments(entry.arguments))
             ELSE <<>>)

\* one line of an expanded entry, when the entry has the field
item_line(present, kind, idx) ==
    IF present THEN <<DisplayLine(kind, idx, 0, 0)>> ELSE <<>>

\* the lines of one frame: its resolved frames, or the raw frame
frame_lines(idx, frame_idx, frame) ==
    IF IsSome(frame.resolved)
    THEN [r \in 1..Len(frame.resolved[1]) |->
              DisplayLine("BacktraceResolved", idx, frame_idx, r - 1)]
    ELSE <<DisplayLine("BacktraceFrame", idx, frame_idx, 0)>>

RECURSIVE all_frames(_, _, _)
all_frames(idx, backtrace, k) ==
    IF k > Len(backtrace) THEN <<>>
    ELSE frame_lines(idx, k - 1, backtrace[k]) \o all_frames(idx, backtrace, k + 1)

backtrace_lines(a, idx, entry) ==
    IF entry.backtrace = <<>> THEN <<>>
    ELSE <<DisplayLine("BacktraceHeader", idx, 0, 0)>>
         \o (IF idx \in a.expanded_backtraces
             THEN all_frames(idx, entry.backtrace, 1)
             ELSE <<>>)

\* SyscallEntry (src/parser/types.rs) has no unfinished_entry_idx and no
\* resumed_entry_idx: no entry has a reference line
has_reference(entry) == FALSE

\* the lines below the header of an expanded entry
expanded_lines(a, idx, entry) ==
    arguments_lines(a, idx, entry)
    \o item_line(IsSome(entry.return_value), "ReturnValue", idx)
    \o item_line(IsSome(entry.errno), "Error", idx)
    \o item_line(IsSome(entry.duration), "Duration", idx)
    \o item_line(IsSome(entry.signal), "Signal", idx)
    \o item_line(IsSome(entry.exit_info), "Exit", idx)
    \o item_line(has_reference(entry), "EntryReference", idx)
    \o backtrace_lines(a, idx, entry)

entry_lines(a, idx, entry) ==
    <<DisplayLine("SyscallHeader", idx, 0, 0)>>
    \o (IF idx \in a.expanded_items THEN expanded_lines(a, idx, entry) ELSE <<>>)

\* the loop over the entries, k the 1-based position
RECURSIVE build_lines(_, _)
build_lines(a, k) ==
    IF k > Len(a.entries) THEN <<>>
    ELSE (IF a.entries[k].syscall_name \in a.hidden_syscalls /\ ~a.show_hidden
          THEN <<>>
          ELSE entry_lines(a, k - 1, a.entries[k]))
         \o build_lines(a, k + 1)

\* the entry under the cursor
current_entry_idx(a) ==
    IF a.selected_line < Len(a.display_lines)
    THEN Some(line_at(a, a.selected_line).entry_idx)
    ELSE None

cursor_screen_pos(a) == saturating_sub(a.selected_line, a.scroll_offset)

\* "Clamp selection to valid range"
clamp_selection(a) ==
    IF a.selected_line >= Len(a.display_lines) /\ a.display_lines # <<>>
    THEN [a EXCEPT !.selected_line = Len(a.display_lines) - 1]
    ELSE a

\* the cursor on `line`, at the row of the screen it was on
restore_to(a, line, screen_pos) ==
    [a EXCEPT !.selected_line = line,
              !.scroll_offset = saturating_sub(line, screen_pos)]

(* get_line_text *)

errno_line_text(entry) ==
    IF IsSome(entry.errno)
    THEN "Error: " \o entry.errno[1].code \o " " \o entry.errno[1].message
    ELSE ""

signal_line_text(entry) ==
    IF IsSome(entry.signal) THEN "Signal: " \o entry.signal[1].signal_name ELSE ""

exit_line_text(entry) ==
    IF IsSome(entry.exit_info)
    THEN "Exit: code=" \o FormatI32(entry.exit_info[1].code)
         \o " killed=" \o FormatBool(entry.exit_info[1].killed)
    ELSE ""

frame_text(entry, frame_idx) ==
    IF frame_idx < Len(entry.backtrace)
    THEN entry.backtrace[frame_idx + 1].binary \o " " \o entry.backtrace[frame_idx + 1].address
    ELSE ""

resolved_text(r) ==
    r.function \o " " \o r.file \o ":" \o FormatUnsigned(r.line)

resolved_frame_text(entry, frame_idx, resolved_idx) ==
    IF frame_idx < Len(entry.backtrace)
       /\ IsSome(entry.backtrace[frame_idx + 1].resolved)
       /\ resolved_idx < Len(entry.backtrace[frame_idx + 1].resolved[1])
    THEN resolved_text(entry.backtrace[frame_idx + 1].resolved[1][resolved_idx + 1])
    ELSE ""

argument_text(args, arg_idx) ==
    IF arg_idx < Len(args) THEN args[arg_idx + 1] ELSE ""

line_text(entry, line) ==
    CASE line.kind = "SyscallHeader" ->
             entry.syscall_name \o " " \o entry.arguments \o " "
             \o UnwrapOr(entry.return_value, "")
      [] line.kind = "ArgumentLine" ->
             argument_text(split_arguments(entry.arguments), line.idx)
      [] line.kind = "ArgumentsHeader" -> "Arguments"
      [] line.kind = "ReturnValue" -> "Return: " \o UnwrapOr(entry.return_value, "?")
      [] line.kind = "Error" -> errno_line_text(entry)
      [] line.kind = "Signal" -> signal_line_text(entry)
      [] line.kind = "Exit" -> exit_line_text(entry)
      [] line.kind = "EntryReference" -> ""
      [] line.kind = "BacktraceHeader" -> "Backtrace"
      [] line.kind = "BacktraceFrame" -> frame_text(entry, line.idx)
      [] line.kind = "BacktraceResolved" ->
             resolved_frame_text(entry, line.idx, line.resolved_idx)
      [] line.kind = "Duration" -> ""

get_line_text(a, line) == line_text(entry_at(a, line.entry_idx), line)

(* search *)

ensure_visible(a) ==
    IF a.selected_line < a.scroll_offset
    THEN [a EXCEPT !.scroll_offset = a.selected_line]
    ELSE IF a.selected_line >= a.scroll_offset + a.last_visible_height
    THEN [a EXCEPT !.scroll_offset =
                       saturating_sub(a.selected_line, a.last_visible_height) + 1]
    ELSE a

\* the indices of the display lines whose text contains the query, ascending
matching_lines(a) ==
    SelectSeq([i \in 1..Len(a.display_lines) |-> i - 1],
              LAMBDA i : Contains(to_lowercase(get_line_text(a, line_at(a, i))),
                                  to_lowercase(a.search_state.query)))

\* the cursor moved to match number match_idx
go_to_match(a, match_idx) ==
    ensure_visible([a EXCEPT !.search_state.current_match_idx = match_idx,
                             !.selected_line = a.search_state.matches[match_idx + 1]])

\* "Update current_match_idx to point to nearest match"
nearest_match(a, move_cursor) ==
    IF a.search_state.matches = <<>> THEN a
    ELSE IF move_cursor
    THEN go_to_match(a, UnwrapOr(position(a.search_state.matches,
                                          LAMBDA idx : idx >= a.selected_line), 0))
    ELSE [a EXCEPT !.search_state.current_match_idx =
                       UnwrapOr(position(a.search_state.matches,
                                         LAMBDA idx : idx >= a.selected_line), 0)]

\* update_search_matches_internal that keeps the number of the current match
\* when the cursor is not to be moved
update_search_matches_internal_keeps_current(a, move_cursor) ==
    IF a.search_state.query = ""
    THEN [a EXCEPT !.search_state.matches = <<>>]
    ELSE IF move_cursor
    THEN nearest_match([a EXCEPT !.search_state.matches = matching_lines(a)], move_cursor)
    ELSE [a EXCEPT !.search_state.matches = matching_lines(a)]

update_search_matches_internal(a, move_cursor) ==
    IF a.search_state.query = ""
    THEN [a EXCEPT !.search_state.matches = <<>>]
    ELSE nearest_match([a EXCEPT !.search_state.matches = matching_lines(a)], move_cursor)

update_search_matches(a) == update_search_matches_internal(a, TRUE)

\* rebuild_display_lines: "Update search matches if search is active"
refresh_matches(a) ==
    IF a.search_state.matches # <<>>
    THEN update_search_matches_internal(a, FALSE)
    ELSE a

\* restore_cursor that leaves scroll_offset alone
restore_cursor_without_scroll(a, current, screen_pos) ==
    IF IsSome(current)
       /\ (a.selected_line >= Len(a.display_lines)
           \/ line_at(a, a.selected_line).entry_idx # current[1])
    THEN [a EXCEPT !.selected_line =
              UnwrapOr(position(a.display_lines,
                                LAMBDA line : line.entry_idx >= current[1]), 0)]
    ELSE a

\* rebuild_display_lines: "Restore cursor to the same entry"
restore_cursor(a, current, screen_pos) ==
    IF IsSome(current)
       /\ (a.selected_line >= Len(a.display_lines)
           \/ line_at(a, a.selected_line).entry_idx # current[1])
    THEN restore_to(a, UnwrapOr(position(a.display_lines,
                                         LAMBDA line : line.entry_idx >= current[1]), 0),
                    screen_pos)
    ELSE a

rebuild_display_lines(a) ==
    restore_cursor(
        refresh_matches(clamp_selection([a EXCEPT !.display_lines = build_lines(a, 1),
                                                  !.rebuilt = TRUE])),
        current_entry_idx(a), cursor_screen_pos(a))

\* start_search that does not save the scroll offset
start_search_forgets_scroll(a) ==
    [a EXCEPT !.search_state = [NewSearchState EXCEPT
                                   !.active = TRUE,
                                   !.original_position = a.selected_line]]

start_search(a) ==
    [a EXCEPT !.search_state = [NewSearchState EXCEPT
                                   !.active = TRUE,
                                   !.original_position = a.selected_line,
                                   !.original_scroll = a.scroll_offset]]

\* search_next taking the first match at or after the cursor
search_next_at_or_after(a) ==
    IF a.search_state.matches = <<>> THEN a
    ELSE go_to_match(a, UnwrapOr(position(a.search_state.matches,
                                          LAMBDA idx : idx >= a.selected_line), 0))

search_next(a) ==
    IF a.search_state.matches = <<>> THEN a
    ELSE go_to_match(a, UnwrapOr(position(a.search_state.matches,
                                          LAMBDA idx : idx > a.selected_line), 0))

search_previous(a) ==
    IF a.search_state.matches = <<>> THEN a
    ELSE go_to_match(a, UnwrapOr(rposition(a.search_state.matches,
                                           LAMBDA idx : idx < a.selected_line),
                                 Len(a.search_state.matches) - 1))

\* String::pop
pop(s) == IF s = "" THEN s ELSE Slice(s, 0, Len(s) - 1)

\* a KeyEvent: code is "Char" or the name of a key
KeyEvent(code, ch, control) == [code |-> code, ch |-> ch, control |-> control]

Key(code) == KeyEvent(code, "", FALSE)

Char(c) == KeyEvent("Char", c, FALSE)

Ctrl(c) == KeyEvent("Char", c, TRUE)

\* the pattern KeyCode::Char(c), which does not look at the modifiers
is_char(event, c) == event.code = "Char" /\ event.ch = c

handle_search_event(a, event) ==
    IF event.code = "Char" /\ ~event.control
    THEN update_search_matches([a EXCEPT !.search_state.query = @ \o event.ch])
    ELSE IF event.code = "Backspace"
    THEN update_search_matches([a EXCEPT !.search_state.query = pop(@)])
    ELSE IF event.code = "Enter"
    THEN [a EXCEPT !.search_state.active = FALSE]
    ELSE IF event.code = "Esc"
    THEN update_search_matches([a EXCEPT !.selected_line = a.search_state.original_position,
                                         !.scroll_offset = a.search_state.original_scroll,
                                         !.search_state.active = FALSE,
                                         !.search_state.query = ""])
    ELSE IF event = Ctrl("n") THEN search_next(a)
    ELSE IF event = Ctrl("p") THEN search_previous(a)
    ELSE a

(* navigation *)

\* move_down without the test of the end of the list
move_down_unguarded(a) ==
    [a EXCEPT !.last_collapsed_position = None,
              !.last_collapsed_scroll = None,
              !.selected_line = @ + 1]

move_up(a) ==
    [a EXCEPT !.last_collapsed_position = None,
              !.last_collapsed_scroll = None,
              !.selected_line = IF @ > 0 THEN @ - 1 ELSE @]

move_down(a) ==
    [a EXCEPT !.last_collapsed_position = None,
              !.last_collapsed_scroll = None,
              !.selected_line = IF @ + 1 < Len(a.display_lines) THEN @ + 1 ELSE @]

\* scroll_page: self.display_lines.len().saturating_sub(self.last_visible_height)
max_scroll(a) == saturating_sub(Len(a.display_lines), a.last_visible_height)

\* scroll_page: "Clamp selected_line to visible range"
clamp_to_visible(a, min_visible, max_visible) ==
    IF a.selected_line < min_visible THEN [a EXCEPT !.selected_line = min_visible]
    ELSE IF a.selected_line > max_visible THEN [a EXCEPT !.selected_line = max_visible]
    ELSE a

keep_cursor_visible(a) ==
    clamp_to_visible(a, a.scroll_offset,
                     saturating_sub(min(a.scroll_offset + a.last_visible_height,
                                        Len(a.display_lines)), 1))

scroll_up(a, scroll_amount) ==
    [a EXCEPT !.scroll_offset = saturating_sub(@, scroll_amount),
              !.selected_line = saturating_sub(@, scroll_amount)]

scroll_down(a, scroll_amount) ==
    [a EXCEPT !.scroll_offset = min(@ + scroll_amount, max_scroll(a)),
              !.selected_line = min(@ + scroll_amount,
                                    saturating_sub(Len(a.display_lines), 1))]

page_size(a, half) ==
    IF half THEN a.last_visible_height \div 2 ELSE a.last_visible_height

scroll_page(a, up, half) ==
    IF a.display_lines = <<>> THEN a
    ELSE IF up
    THEN keep_cursor_visible(scroll_up(a, min(page_size(a, half), a.scroll_offset)))
    ELSE keep_cursor_visible(
             scroll_down(a, min(page_size(a, half),
                                saturating_sub(max_scroll(a), a.scroll_offset))))

(* folds *)

\* adjust_scroll_after_expansion, last_line being the last line of the entry
scroll_to_show(a, header_line, last_line) ==
    IF last_line + 1 > a.scroll_offset + a.last_visible_height
    THEN [a EXCEPT !.scroll_offset =
              min(min(saturating_sub(last_line + 3, a.last_visible_height),
                      saturating_sub(header_line, 2)),
                  max_scroll(a))]
    ELSE a

\* adjust_scroll_after_expansion without the bound that keeps the header in view
adjust_scroll_after_expansion_unbounded(a, header_line) ==
    scroll_to_show(a, header_line + 4,
        UnwrapOr(rposition(a.display_lines,
                           LAMBDA line : line.entry_idx = line_at(a, header_line).entry_idx),
                 header_line))

adjust_scroll_after_expansion(a, header_line) ==
    scroll_to_show(a, header_line,
        UnwrapOr(rposition(a.display_lines,
                           LAMBDA line : line.entry_idx = line_at(a, header_line).entry_idx),
                 header_line))

\* the resolver of the fixed file system, with nothing loaded
FreshResolver == [loaders |-> {}, cache |-> <<>>]

\* resolver.resolve_frames(&mut entry.backtrace)
resolve_frames(backtrace) ==
    [k \in 1..Len(backtrace) |->
        [backtrace[k] EXCEPT !.resolved =
            resolve_address(FreshResolver, backtrace[k].binary, backtrace[k].address).resolved]]

\* "Resolve on-demand"
resolve_backtrace(a, idx) ==
    IF idx < Len(a.entries) /\ entry_at(a, idx).backtrace # <<>>
    THEN [a EXCEPT !.entries[idx + 1].backtrace = resolve_frames(@)]
    ELSE a

\* the fold of `kind` of entry idx marked expanded
with_expanded(a, kind, idx) ==
    CASE kind = "SyscallHeader" -> [a EXCEPT !.expanded_items = @ \cup {idx}]
      [] kind = "ArgumentsHeader" -> [a EXCEPT !.expanded_arguments = @ \cup {idx}]
      [] kind = "BacktraceHeader" ->
             resolve_backtrace([a EXCEPT !.expanded_backtraces = @ \cup {idx}], idx)

\* the fold of `kind` of entry idx marked collapsed, as toggle_current_line does
with_collapsed(a, kind, idx) ==
    CASE kind = "SyscallHeader" -> [a EXCEPT !.expanded_items = @ \ {idx},
                                             !.expanded_backtraces = @ \ {idx}]
      [] kind = "ArgumentsHeader" -> [a EXCEPT !.expanded_arguments = @ \ {idx}]
      [] kind = "BacktraceHeader" -> [a EXCEPT !.expanded_backtraces = @ \ {idx}]

is_expanded(a, kind, idx) ==
    CASE kind = "SyscallHeader" -> idx \in a.expanded_items
      [] kind = "ArgumentsHeader" -> idx \in a.expanded_arguments
      [] kind = "BacktraceHeader" -> idx \in a.expanded_backtraces

Headers == {"SyscallHeader", "ArgumentsHeader", "BacktraceHeader"}

\* toggle_current_line on a header
toggle_fold(a, kind, idx) ==
    IF is_expanded(a, kind, idx)
    THEN rebuild_display_lines(with_collapsed(a, kind, idx))
    ELSE adjust_scroll_after_expansion(
             rebuild_display_lines(
                 with_expanded([a EXCEPT !.last_collapsed_scroll = Some(a.scroll_offset)],
                               kind, idx)),
             a.selected_line)

\* toggle_current_line on a resolved frame
request_editor(a, entry, line) ==
    IF line.idx < Len(entry.backtrace)
       /\ IsSome(entry.backtrace[line.idx + 1].resolved)
       /\ line.resolved_idx < Len(entry.backtrace[line.idx + 1].resolved[1])
    THEN [a EXCEPT !.pending_editor_open =
              Some(<<entry.backtrace[line.idx + 1].resolved[1][line.resolved_idx + 1].file,
                     entry.backtrace[line.idx + 1].resolved[1][line.resolved_idx + 1].line,
                     entry.backtrace[line.idx + 1].resolved[1][line.resolved_idx + 1].column>>)]
    ELSE a

toggle_line(a, line) ==
    IF line.kind \in Headers THEN toggle_fold(a, line.kind, line.entry_idx)
    ELSE IF line.kind = "BacktraceResolved"
    THEN request_editor(a, entry_at(a, line.entry_idx), line)
    ELSE a

\* toggle_current_line that keeps an earlier request and never makes one
toggle_current_line_without_request(a) ==
    IF a.selected_line >= Len(a.display_lines) THEN a
    ELSE IF line_at(a, a.selected_line).kind \in Headers
    THEN toggle_line(a, line_at(a, a.selected_line))
    ELSE a

toggle_current_line(a) ==
    IF a.selected_line >= Len(a.display_lines) THEN a
    ELSE toggle_line(a, line_at(a, a.selected_line))

\* expand_current: "Restore cursor position if we just collapsed this"
restore_saved(a, saved_position) ==
    IF IsSome(saved_position) /\ saved_position[1] < Len(a.display_lines)
    THEN [a EXCEPT !.selected_line = saved_position[1]]
    ELSE a

expand_fold(a, kind, idx) ==
    IF ~is_expanded(a, kind, idx)
    THEN adjust_scroll_after_expansion(
             restore_saved(
                 rebuild_display_lines(
                     with_expanded([a EXCEPT !.last_collapsed_scroll = Some(a.scroll_offset)],
                                   kind, idx)),
                 a.last_collapsed_position),
             a.selected_line)
    ELSE a

expand_line(a, line) ==
    IF line.kind \in Headers THEN expand_fold(a, line.kind, line.entry_idx) ELSE a

\* expand_current: "Only clear saved position if we used it"
clear_saved(a, saved_position) ==
    IF IsSome(saved_position) THEN [a EXCEPT !.last_collapsed_position = None] ELSE a

expand_current(a) ==
    IF a.selected_line >= Len(a.display_lines) THEN a
    ELSE clear_saved(expand_line(a, line_at(a, a.selected_line)), a.last_collapsed_position)

\* the cursor moved to the header `kind` of entry idx, if it is shown
move_to_header(a, kind, idx) ==
    [a EXCEPT !.selected_line =
         UnwrapOr(position(a.display_lines,
                           LAMBDA line : line.kind = kind /\ line.entry_idx = idx), @)]

\* the three folds of entry idx marked collapsed
collapse_entry(a, idx) ==
    [a EXCEPT !.expanded_items = @ \ {idx},
              !.expanded_arguments = @ \ {idx},
              !.expanded_backtraces = @ \ {idx}]

collapse_syscall(a, idx) ==
    move_to_header(rebuild_display_lines(collapse_entry(a, idx)), "SyscallHeader", idx)

\* collapse_deepest: "Collapse the deepest surrounding fold based on current line type"
collapse_fold(a, line) ==
    CASE line.kind = "ArgumentLine" ->
             move_to_header(rebuild_display_lines(
                                [a EXCEPT !.expanded_arguments = @ \ {line.entry_idx}]),
                            "ArgumentsHeader", line.entry_idx)
      [] line.kind \in {"BacktraceFrame", "BacktraceResolved"} ->
             move_to_header(rebuild_display_lines(
                                [a EXCEPT !.expanded_backtraces = @ \ {line.entry_idx}]),
                            "BacktraceHeader", line.entry_idx)
      [] line.kind = "ArgumentsHeader" ->
             IF line.entry_idx \in a.expanded_arguments
             THEN rebuild_display_lines(
                      [a EXCEPT !.expanded_arguments = @ \ {line.entry_idx}])
             ELSE collapse_syscall(a, line.entry_idx)
      [] line.kind = "BacktraceHeader" ->
             IF line.entry_idx \in a.expanded_backtraces
             THEN rebuild_display_lines(
                      [a EXCEPT !.expanded_backtraces = @ \ {line.entry_idx}])
             ELSE collapse_syscall(a, line.entry_idx)
      [] OTHER -> collapse_syscall(a, line.entry_idx)

\* collapse_deepest: "Restore the scroll position from before expansion"
restore_scroll(a, scroll_to_restore, saved_position) ==
    [a EXCEPT !.scroll_offset = UnwrapOr(scroll_to_restore, @),
              !.last_collapsed_position = saved_position]

collapse_deepest(a) ==
    IF a.selected_line >= Len(a.display_lines) THEN a
    ELSE restore_scroll(collapse_fold(a, line_at(a, a.selected_line)),
                        a.last_collapsed_scroll, Some(a.selected_line))

\* expand_all, collapse_all: "Restore cursor to the same entry"
restore_entry(a, current, screen_pos) ==
    IF IsSome(current)
    THEN restore_to(a, UnwrapOr(position(a.display_lines,
                                         LAMBDA line : line.entry_idx = current[1]), 0),
                    screen_pos)
    ELSE a

expand_all(a) ==
    restore_entry(
        rebuild_display_lines([a EXCEPT !.expanded_items = @ \cup (0..(Len(a.entries) - 1))]),
        current_entry_idx(a), cursor_screen_pos(a))

\* collapse_all that moves the cursor to the entry and leaves scroll_offset
collapse_all_cursor_only(a) ==
    [restore_entry(
         rebuild_display_lines([a EXCEPT !.expanded_items = {},
                                         !.expanded_arguments = {},
                                         !.expanded_backtraces = {}]),
         current_entry_idx(a), cursor_screen_pos(a))
     EXCEPT !.scroll_offset = a.scroll_offset]

collapse_all(a) ==
    restore_entry(
        rebuild_display_lines([a EXCEPT !.expanded_items = {},
                                        !.expanded_arguments = {},
                                        !.expanded_backtraces = {}]),
        current_entry_idx(a), cursor_screen_pos(a))

(* filter *)

\* the entry of a display line is shown without the ghost mode
is_visible_line(a, line) ==
    a.show_hidden \/ entry_at(a, line.entry_idx).syscall_name \notin a.hidden_syscalls

find_next_visible_line_after(a, entry_idx) ==
    position(a.display_lines,
             LAMBDA line : line.entry_idx > entry_idx /\ is_visible_line(a, line))

find_first_visible_line(a) ==
    position(a.display_lines, LAMBDA line : is_visible_line(a, line))

\* hidden_syscalls with one name toggled
toggle_hidden(a, syscall_name) ==
    [a EXCEPT !.hidden_syscalls =
         IF syscall_name \in @ THEN @ \ {syscall_name} ELSE @ \cup {syscall_name}]

\* toggle_current_syscall_visibility: "find next visible item"
next_visible_line(a, entry_idx) ==
    IF IsSome(find_next_visible_line_after(a, entry_idx))
    THEN find_next_visible_line_after(a, entry_idx)[1]
    ELSE UnwrapOr(find_first_visible_line(a), 0)

\* toggle_current_syscall_visibility: "Clamp scroll_offset to valid range"
clamp_scroll(a) == [a EXCEPT !.scroll_offset = min(@, max_scroll(a))]

\* toggle_current_syscall_visibility after the rebuild
after_toggle(a, entry_idx, was_hiding, screen_position) ==
    IF a.show_hidden
       /\ IsSome(position(a.display_lines, LAMBDA line : line.entry_idx = entry_idx))
    THEN restore_to(a, position(a.display_lines,
                                LAMBDA line : line.entry_idx = entry_idx)[1],
                    screen_position)
    ELSE IF was_hiding /\ ~a.show_hidden
    THEN clamp_scroll(restore_to(a, next_visible_line(a, entry_idx), screen_position))
    ELSE clamp_selection(a)

toggle_visibility_of(a, entry_idx) ==
    after_toggle(rebuild_display_lines(toggle_hidden(a, entry_at(a, entry_idx).syscall_name)),
                 entry_idx,
                 entry_at(a, entry_idx).syscall_name \notin a.hidden_syscalls,
                 saturating_sub(a.selected_line, a.scroll_offset))

toggle_current_syscall_visibility(a) ==
    IF a.selected_line >= Len(a.display_lines) THEN a
    ELSE toggle_visibility_of(a, line_at(a, a.selected_line).entry_idx)

\* toggle_show_hidden that leaves the display lines as they are
toggle_show_hidden_without_rebuild(a) == [a EXCEPT !.show_hidden = ~@]

toggle_show_hidden(a) == rebuild_display_lines([a EXCEPT !.show_hidden = ~@])

open_filter_modal(a) ==
    [a EXCEPT !.show_filter_modal = TRUE,
              !.filter_modal_state.selected_index = 0,
              !.filter_modal_state.scroll_offset = 0]

close_filter_modal(a) == [a EXCEPT !.show_filter_modal = FALSE]

toggle_all_syscalls(a) ==
    rebuild_display_lines(
        [a EXCEPT !.hidden_syscalls =
             IF @ = {}
             THEN {a.filter_modal_state.syscall_list[k][1] :
                      k \in 1..Len(a.filter_modal_state.syscall_list)}
             ELSE {}])

\* handle_filter_modal_event: the height it takes the modal to have
modal_visible_height(a) == saturating_sub((a.last_visible_height * 70) \div 100, 2)

modal_up(a) ==
    IF a.filter_modal_state.selected_index > 0
    THEN [a EXCEPT !.filter_modal_state.selected_index = @ - 1,
                   !.filter_modal_state.scroll_offset =
                       IF a.filter_modal_state.selected_index - 1 < @
                       THEN a.filter_modal_state.selected_index - 1 ELSE @]
    ELSE a

modal_down(a, visible_height) ==
    IF a.filter_modal_state.selected_index + 1 < Len(a.filter_modal_state.syscall_list)
    THEN [a EXCEPT !.filter_modal_state.selected_index = @ + 1,
                   !.filter_modal_state.scroll_offset =
                       IF a.filter_modal_state.selected_index + 1 >= @ + visible_height
                       THEN saturating_sub(a.filter_modal_state.selected_index + 1,
                                           visible_height) + 1
                       ELSE @]
    ELSE a

modal_page_up(a, scroll_amount) ==
    [a EXCEPT !.filter_modal_state.selected_index = saturating_sub(@, scroll_amount),
              !.filter_modal_state.scroll_offset = saturating_sub(@, scroll_amount)]

modal_page_down(a, scroll_amount, visible_height) ==
    [a EXCEPT !.filter_modal_state.selected_index =
                  min(@ + scroll_amount,
                      saturating_sub(Len(a.filter_modal_state.syscall_list), 1)),
              !.filter_modal_state.scroll_offset =
                  min(@ + scroll_amount,
                      saturating_sub(Len(a.filter_modal_state.syscall_list), visible_height))]

modal_end(a, visible_height) ==
    [a EXCEPT !.filter_modal_state.selected_index =
                  saturating_sub(Len(a.filter_modal_state.syscall_list), 1),
              !.filter_modal_state.scroll_offset =
                  saturating_sub(Len(a.filter_modal_state.syscall_list), visible_height)]

\* "Toggle the selected syscall"
modal_toggle(a) ==
    IF a.filter_modal_state.selected_index < Len(a.filter_modal_state.syscall_list)
    THEN rebuild_display_lines(
             toggle_hidden(a, a.filter_modal_state.syscall_list[
                                  a.filter_modal_state.selected_index + 1][1]))
    ELSE a

(* the filter modal's own search *)

start_modal_search(a) ==
    [a EXCEPT !.modal_search_state =
         [NewSearchState EXCEPT
             !.active = TRUE,
             !.original_position = a.filter_modal_state.selected_index,
             !.original_scroll = a.filter_modal_state.scroll_offset]]

ensure_modal_visible(a) ==
    IF a.filter_modal_state.selected_index < a.filter_modal_state.scroll_offset
    THEN [a EXCEPT !.filter_modal_state.scroll_offset = a.filter_modal_state.selected_index]
    ELSE IF a.filter_modal_state.selected_index
               >= a.filter_modal_state.scroll_offset + modal_visible_height(a)
    THEN [a EXCEPT !.filter_modal_state.scroll_offset =
              saturating_sub(a.filter_modal_state.selected_index,
                             modal_visible_height(a)) + 1]
    ELSE a

\* the indices of the syscall names that contain the modal query, ascending
matching_syscalls(a) ==
    SelectSeq([i \in 1..Len(a.filter_modal_state.syscall_list) |-> i - 1],
              LAMBDA i : Contains(to_lowercase(a.filter_modal_state.syscall_list[i + 1][1]),
                                  to_lowercase(a.modal_search_state.query)))

\* the modal's cursor moved to match number match_idx
go_to_modal_match(a, match_idx) ==
    ensure_modal_visible(
        [a EXCEPT !.modal_search_state.current_match_idx = match_idx,
                  !.filter_modal_state.selected_index =
                      a.modal_search_state.matches[match_idx + 1]])

\* update_modal_search_matches: "Focus on first match after current position"
nearest_modal_match(a) ==
    IF a.modal_search_state.matches = <<>> THEN a
    ELSE go_to_modal_match(a,
             UnwrapOr(position(a.modal_search_state.matches,
                               LAMBDA idx : idx >= a.filter_modal_state.selected_index), 0))

update_modal_search_matches(a) ==
    IF a.modal_search_state.query = ""
    THEN [a EXCEPT !.modal_search_state.matches = <<>>]
    ELSE nearest_modal_match([a EXCEPT !.modal_search_state.matches = matching_syscalls(a)])

modal_search_next(a) ==
    IF a.modal_search_state.matches = <<>> THEN a
    ELSE go_to_modal_match(a,
             UnwrapOr(position(a.modal_search_state.matches,
                               LAMBDA idx : idx > a.filter_modal_state.selected_index), 0))

modal_search_previous(a) ==
    IF a.modal_search_state.matches = <<>> THEN a
    ELSE go_to_modal_match(a,
             UnwrapOr(rposition(a.modal_search_state.matches,
                                LAMBDA idx : idx < a.filter_modal_state.selected_index),
                      Len(a.modal_search_state.matches) - 1))

handle_modal_search_event(a, event) ==
    IF event.code = "Char" /\ ~event.control
    THEN update_modal_search_matches([a EXCEPT !.modal_search_state.query = @ \o event.ch])
    ELSE IF event.code = "Backspace"
    THEN update_modal_search_matches([a EXCEPT !.modal_search_state.query = pop(@)])
    ELSE IF event.code = "Enter"
    THEN [a EXCEPT !.modal_search_state.active = FALSE]
    ELSE IF event.code = "Esc"
    THEN [a EXCEPT !.filter_modal_state.selected_index =
                       a.modal_search_state.original_position,
                   !.filter_modal_state.scroll_offset = a.modal_search_state.original_scroll,
                   !.modal_search_state.active = FALSE,
                   !.modal_search_state.query = "",
                   !.modal_search_state.matches = <<>>]
    ELSE IF event = Ctrl("n") THEN modal_search_next(a)
    ELSE IF event = Ctrl("p") THEN modal_search_previous(a)
    ELSE a

\* handle_filter_modal_event without the modal search taking the key first
handle_filter_modal_event_without_search(a, event) ==
    IF is_char(event, "/") THEN start_modal_search(a)
    ELSE IF event.code = "Esc" \/ is_char(event, "H") \/ is_char(event, "q")
    THEN close_filter_modal(a)
    ELSE a

handle_filter_modal_event(a, event) ==
    IF a.modal_search_state.active THEN handle_modal_search_event(a, event)
    ELSE IF is_char(event, "/") THEN start_modal_search(a)
    ELSE IF is_char(event, "n") /\ a.modal_search_state.query # ""
    THEN modal_search_next(a)
    ELSE IF is_char(event, "N") /\ a.modal_search_state.query # ""
    THEN modal_search_previous(a)
    ELSE IF event.code = "Esc" \/ is_char(event, "H") \/ is_char(event, "q")
    THEN close_filter_modal(a)
    ELSE IF event.code = "Up" \/ is_char(event, "k") THEN modal_up(a)
    ELSE IF event.code = "Down" \/ is_char(event, "j")
    THEN modal_down(a, modal_visible_height(a))
    ELSE IF event.code = "PageUp" THEN modal_page_up(a, modal_visible_height(a))
    ELSE IF event.code = "PageDown"
    THEN modal_page_down(a, modal_visible_height(a), modal_visible_height(a))
    ELSE IF event = Ctrl("u") THEN modal_page_up(a, modal_visible_height(a) \div 2)
    ELSE IF event = Ctrl("d")
    THEN modal_page_down(a, modal_visible_height(a) \div 2, modal_visible_height(a))
    ELSE IF event.code = "Home" \/ is_char(event, "g")
    THEN [a EXCEPT !.filter_modal_state.selected_index = 0,
                   !.filter_modal_state.scroll_offset = 0]
    ELSE IF event.code = "End" \/ is_char(event, "G")
    THEN modal_end(a, modal_visible_height(a))
    ELSE IF event.code = "Enter" \/ is_char(event, " ") THEN modal_toggle(a)
    ELSE IF is_char(event, "a") THEN toggle_all_syscalls(a)
    ELSE a

(* handle_event *)

\* the match of handle_event, reached when no overlay takes the key
handle_main_event(a, event) ==
    IF is_char(event, "q") \/ is_char(event, "Q") \/ event = Ctrl("c")
    THEN [a EXCEPT !.should_quit = TRUE]
    ELSE IF is_char(event, "?") THEN [a EXCEPT !.show_help = TRUE]
    ELSE IF is_char(event, "h") THEN toggle_current_syscall_visibility(a)
    ELSE IF is_char(event, "H") THEN open_filter_modal(a)
    ELSE IF is_char(event, ".") THEN toggle_show_hidden(a)
    ELSE IF event.code = "Up" \/ is_char(event, "k") THEN move_up(a)
    ELSE IF event.code = "Down" \/ is_char(event, "j") THEN move_down(a)
    ELSE IF event.code = "PageUp" THEN scroll_page(a, TRUE, FALSE)
    ELSE IF event.code = "PageDown" THEN scroll_page(a, FALSE, FALSE)
    ELSE IF event = Ctrl("u") THEN scroll_page(a, TRUE, TRUE)
    ELSE IF event = Ctrl("d") THEN scroll_page(a, FALSE, TRUE)
    ELSE IF event.code = "Home" \/ is_char(event, "g") THEN [a EXCEPT !.selected_line = 0]
    ELSE IF event.code = "End" \/ is_char(event, "G")
    THEN (IF a.display_lines # <<>>
          THEN [a EXCEPT !.selected_line = Len(a.display_lines) - 1]
          ELSE a)
    ELSE IF event.code = "Enter" \/ is_char(event, " ") THEN toggle_current_line(a)
    ELSE IF event.code = "Left" THEN collapse_deepest(a)
    ELSE IF event.code = "Right" THEN expand_current(a)
    ELSE IF is_char(event, "e") THEN expand_all(a)
    ELSE IF event = Char("c") THEN collapse_all(a)
    ELSE IF is_char(event, "/") THEN start_search(a)
    ELSE IF is_char(event, "n") /\ a.search_state.query # "" THEN search_next(a)
    ELSE IF is_char(event, "N") /\ a.search_state.query # "" THEN search_previous(a)
    ELSE a

\* handle_event without the test of the help screen
handle_event_without_help(a, event) ==
    IF a.search_state.active THEN handle_search_event(a, event)
    ELSE IF a.show_filter_modal THEN handle_filter_modal_event(a, event)
    ELSE handle_main_event(a, event)

handle_event(a, event) ==
    IF a.search_state.active THEN handle_search_event(a, event)
    ELSE IF a.show_filter_modal THEN handle_filter_modal_event(a, event)
    ELSE IF a.show_help
    THEN (IF is_char(event, "?") \/ event.code = "Esc"
          THEN [a EXCEPT !.show_help = FALSE]
          ELSE a)
    ELSE handle_main_event(a, event)

(* App::new *)

\* the names a sorted syscall list can hold, in the order of String's Ord
SyscallNames == <<"read", "signal", "write">>

\* the number of entries of a name
syscall_count(app_entries, name) ==
    Cardinality({k \in 1..Len(app_entries) : app_entries[k].syscall_name = name})

\* "Build syscall list for filter modal"
syscall_list_of(app_entries) ==
    [k \in 1..Len(SelectSeq(SyscallNames, LAMBDA name : syscall_count(app_entries, name) > 0)) |->
        <<SelectSeq(SyscallNames, LAMBDA name : syscall_count(app_entries, name) > 0)[k],
          syscall_count(app_entries,
              SelectSeq(SyscallNames, LAMBDA name : syscall_count(app_entries, name) > 0)[k])>>]

DefaultVisibleHeight == 20

App_new(app_entries) ==
    rebuild_display_lines(
        [entries                 |-> app_entries,
         display_lines           |-> <<>>,
         selected_line           |-> 0,
         scroll_offset           |-> 0,
         expanded_items          |-> {},
         expanded_arguments      |-> {},
         expanded_backtraces     |-> {},
         last_visible_height     |-> DefaultVisibleHeight,
         last_collapsed_position |-> None,
         last_collapsed_scroll   |-> None,
         hidden_syscalls         |-> {},
         show_hidden             |-> FALSE,
         show_filter_modal       |-> FALSE,
         filter_modal_state      |-> [syscall_list   |-> syscall_list_of(app_entries),
                                      selected_index |-> 0,
                                      scroll_offset  |-> 0],
         search_state            |-> NewSearchState,
         modal_search_state      |-> NewSearchState,
         should_quit             |-> FALSE,
         show_help               |-> FALSE,
         pending_editor_open     |-> None,
         rebuilt                 |-> FALSE])

(* src/tui/ui.rs *)

\* draw_list evaluates `visible_height - 1` in usize: with a list of 0 rows the
\* subtraction overflows
draw_list_overflows(a, visible_height) ==
    a.selected_line >= a.scroll_offset + visible_height /\ visible_height < 1

\* selected_line.saturating_sub(visible_height - 1); where the subtraction
\* overflows and the build does not check it, it wraps to usize::MAX, which
\* no selected_line exceeds
scroll_to_last_row(a, visible_height) ==
    IF visible_height < 1 THEN 0 ELSE saturating_sub(a.selected_line, visible_height - 1)

\* draw_list: "Calculate scroll offset to keep selected item visible"
keep_selected_visible(a, visible_height) ==
    IF a.selected_line >= a.scroll_offset + visible_height
    THEN [a EXCEPT !.scroll_offset = scroll_to_last_row(a, visible_height)]
    ELSE IF a.selected_line < a.scroll_offset
    THEN [a EXCEPT !.scroll_offset = a.selected_line]
    ELSE a

draw_list(a, visible_height) ==
    keep_selected_visible([a EXCEPT !.last_visible_height = visible_height], visible_height)

\* draw: the rows the layout leaves to the list
list_height(rows) == saturating_sub(rows, 4)

(* src/tui/mod.rs: run_app on the entries of a small trace *)

\* the entries of the traces
EntryWrite ==
    [NewEntry(1, "", "write") EXCEPT !.arguments = "1, \"a,b\"",
                                     !.return_value = Some("3")]

EntryRead ==
    [NewEntry(1, "", "read") EXCEPT !.return_value = Some("0"),
                                    !.backtrace = <<FrameOf("/bin/app", "0x10"),
                                                    FrameOf("/missing", "0x10")>>]

EntrySignal ==
    [NewEntry(2, "", "signal") EXCEPT !.signal = Some([signal_name |-> "SIGINT",
                                                        details     |-> ""])]

\* the traces run_app is started on
AppTraces ==
    {<<>>,
     <<EntryRead>>,
     <<EntryWrite, EntryRead>>,
     <<EntrySignal, EntryWrite, EntryWrite>>}

\* the number of rows of the terminal at a draw
TerminalRows == {6, 7}

MaxQueryLen == 1

MaxKeys == 5

\* the keys pressed
KeyEvents ==
    {Key(code) : code \in {"Up", "Down", "PageUp", "PageDown", "Home", "End", "Enter",
                           "Left", "Right", "Esc", "Backspace"}}
    \cup {Char(c) : c \in {"q", "?", "h", "H", ".", "e", "c", "/", "n", "N", "a"}}
    \cup {Ctrl(c) : c \in {"u", "d", "c", "n", "p"}}

InitApp ==
    /\ pc = "draw"
    /\ \E app_entries \in AppTraces : app = App_new(app_entries)
    /\ keys = 0
    /\ IdleOutsideApp

\* terminal.draw(|f| ui::draw(f, app))
Draw(rows) ==
    /\ pc = "draw"
    /\ app' = draw_list(app, list_height(rows))
    /\ pc' = "event"
    /\ UNCHANGED <<keys, outside_app>>

\* get_event() returned None
NoEvent ==
    /\ pc = "event"
    /\ pc' = "draw"
    /\ UNCHANGED <<app, keys, outside_app>>

\* the characters typed into the search bar
QueryChars == {"e"}

\* the key is one this model has typed: a query, of the main search or of
\* the modal's, is of at most MaxQueryLen characters of QueryChars
Typed(event) ==
    /\ app.search_state.active /\ event.code = "Char" /\ ~event.control
           => Len(app.search_state.query) < MaxQueryLen /\ event.ch \in QueryChars
    /\ (/\ ~app.search_state.active
        /\ app.show_filter_modal
        /\ app.modal_search_state.active
        /\ event.code = "Char"
        /\ ~event.control)
           => Len(app.modal_search_state.query) < MaxQueryLen /\ event.ch \in QueryChars

\* app.handle_event(event), then the test of should_quit
HandleEvent(event) ==
    /\ pc = "event"
    /\ keys < MaxKeys
    /\ Typed(event)
    /\ app' = handle_event([app EXCEPT !.rebuilt = FALSE], event)
    /\ keys' = keys + 1
    /\ pc' = IF app'.should_quit THEN "quit" ELSE "editor"
    /\ UNCHANGED outside_app

\* app.pending_editor_open.take(), and the editor when there is a request
OpenEditor ==
    /\ pc = "editor"
    /\ app' = [app EXCEPT !.pending_editor_open = None, !.rebuilt = FALSE]
    /\ pc' = "draw"
    /\ UNCHANGED <<keys, outside_app>>

NextApp ==
    \/ \E rows \in TerminalRows : Draw(rows)
    \/ NoEvent
    \/ \E event \in KeyEvents : HandleEvent(event)
    \/ OpenEditor

SpecApp == InitApp /\ [][NextApp]_vars

(* run_app on terminals too small for the list *)

\* the rows of a terminal that leaves the list 0, 1 or 2 rows
SmallTerminalRows == {4, 5, 6}

\* terminal.draw in a build that checks arithmetic overflow: the subtraction of
\* draw_list panics, after update_visible_height
DrawOverflow(rows) ==
    /\ pc = "draw"
    /\ draw_list_overflows(app, list_height(rows))
    /\ app' = [app EXCEPT !.last_visible_height = list_height(rows)]
    /\ pc' = "panic"
    /\ UNCHANGED <<keys, outside_app>>

NextSmall ==
    \/ \E rows \in SmallTerminalRows : Draw(rows)
    \/ \E rows \in SmallTerminalRows : DrawOverflow(rows)
    \/ NoEvent
    \/ \E event \in KeyEvents : HandleEvent(event)
    \/ OpenEditor

\* run_app on a small terminal, in a build with or without overflow checks
SpecSmall == InitApp /\ [][NextSmall]_vars

-----------------------------------------------------------------------------
(* Claims about the stitching parser, checked under Spec *)

Range(f) == {f[x] : x \in DOMAIN f}

\* line i of the catalogue is an event line the line parser accepts
Parses(i) == LineKind[i] = "event" /\ ParsedLine[i].ok

\* line i is an unfinished line / a resumed line of process pid
UnfinishedLineOf(i, pid) ==
    Parses(i) /\ ParsedLine[i].val.is_unfinished /\ ParsedLine[i].val.pid = pid

ResumedLineOf(i, pid) ==
    Parses(i) /\ ParsedLine[i].val.is_resumed /\ ParsedLine[i].val.pid = pid

\* this step consumes line i
Consumes(i) == input' = Append(input, i)

\* this step consumes a resumed line whose pid has a pending unfinished entry
MergeStep(i) ==
    Consumes(i) /\ Parses(i) /\ ParsedLine[i].val.is_resumed
                /\ ParsedLine[i].val.pid \in DOMAIN unfinished

\* C1 as stated: when parse_lines has returned, an entry is still unfinished only
\* if no resumed line of its pid came anywhere after its own line.
C1_UnfinishedOnlyIfNeverResumed ==
    pc = "done" =>
        \A k \in 1..Len(entries) :
            entries[k].is_unfinished =>
                ~\E j \in (origin[k] + 1)..Len(input) :
                    ResumedLineOf(input[j], entries[k].pid)

\* C1 as amended: when parse_lines has returned, an entry is still unfinished only
\* if no resumed line of its pid came after its own line and before the next
\* unfinished line of that pid: a resume completes the latest unfinished entry.
C1_UnfinishedOnlyIfNotResumedFirst ==
    pc = "done" =>
        \A k \in 1..Len(entries) :
            entries[k].is_unfinished =>
                ~\E j \in (origin[k] + 1)..Len(input) :
                    /\ ResumedLineOf(input[j], entries[k].pid)
                    /\ \A m \in (origin[k] + 1)..(j - 1) :
                          ~UnfinishedLineOf(input[m], entries[k].pid)

\* parse_lines has returned one entry that was completed by a resume and one
\* that is still unfinished
C1_Witness ==
    /\ pc = "done"
    /\ \E k \in 1..Len(entries) :
          UnfinishedLineOf(input[origin[k]], entries[k].pid) /\ ~entries[k].is_unfinished
    /\ \E k \in 1..Len(entries) : entries[k].is_unfinished

\* C2: a resumed line whose pid has a pending entry appends nothing; the pending
\* entry, which is an unfinished entry of that pid, takes the resume's return
\* value, errno and duration and loses both flags, every other entry is left as
\* it was, and the pid leaves the table; every pid in the table names its one
\* pending entry.
C2_ResumeMergesInPlace ==
    [][/\ \A p \in DOMAIN unfinished :
            /\ unfinished[p] + 1 \in 1..Len(AllEntries)
            /\ AllEntries[unfinished[p] + 1].pid = p
            /\ AllEntries[unfinished[p] + 1].is_unfinished
       /\ \A i \in LineIds :
            MergeStep(i) =>
                LET e == ParsedLine[i].val
                    k == unfinished[e.pid] + 1
                IN  /\ Len(AllEntries') = Len(AllEntries)
                    /\ AllEntries'[k].return_value = e.return_value
                    /\ AllEntries'[k].errno = e.errno
                    /\ AllEntries'[k].duration = e.duration
                    /\ ~AllEntries'[k].is_unfinished
                    /\ ~AllEntries'[k].is_resumed
                    /\ AllEntries'[k].pid = e.pid
                    /\ AllEntries'[k].syscall_name = AllEntries[k].syscall_name
                    /\ \A m \in 1..Len(AllEntries) : m # k => AllEntries'[m] = AllEntries[m]
                    /\ e.pid \notin DOMAIN unfinished'
                    /\ errors' = errors
      ]_vars

\* an unfinished line, a line of another process, then the resume: two entries,
\* the first completed with the resume's return value
C2_Witness ==
    /\ Len(input) = 3
    /\ Len(AllEntries) = 2
    /\ \E p \in {1, 2} :
          /\ UnfinishedLineOf(input[1], p)
          /\ Parses(input[2]) /\ ParsedLine[input[2]].val.pid # p
          /\ ResumedLineOf(input[3], p)
          /\ AllEntries[1].return_value = ParsedLine[input[3]].val.return_value
          /\ IsSome(AllEntries[1].return_value)
          /\ ~AllEntries[1].is_unfinished

\* C3: a resumed line whose pid has no pending entry is appended as its own
\* entry, still marked resumed, with exactly one error "resumed without
\* unfinished" carrying the line's number; no other entry and no table entry
\* changes.
C3_ResumeWithoutUnfinished ==
    [][\A i \in LineIds :
            (/\ Consumes(i)
             /\ Parses(i)
             /\ ParsedLine[i].val.is_resumed
             /\ ParsedLine[i].val.pid \notin DOMAIN unfinished)
            => /\ AllEntries' = Append(AllEntries, ParsedLine[i].val)
               /\ AllEntries'[Len(AllEntries')].is_resumed
               /\ errors' = Append(errors, [line |-> Len(input'),
                                            kind |-> "InvalidFormat",
                                            msg  |-> "resumed without unfinished"])
               /\ unfinished' = unfinished
      ]_vars

\* a resumed line was appended after another entry and its error recorded
C3_Witness ==
    /\ Len(AllEntries) >= 2
    /\ AllEntries[Len(AllEntries)].is_resumed
    /\ \E x \in 1..Len(errors) :
          errors[x].msg = "resumed without unfinished" /\ errors[x].line = Len(input)

\* C4 as stated: a line that fails to parse, be it an event line or a backtrace
\* line, records exactly one error with the line's 1-based number; the entries
\* of earlier lines are unchanged and parsing goes on.
C4_FailedLineRecordsOneError ==
    [][\A i \in LineIds :
            (/\ Consumes(i)
             /\ \/ LineKind[i] = "event" /\ ~ParsedLine[i].ok
                \/ LineKind[i] = "backtrace" /\ ~ParsedFrame[i].ok)
            => /\ Len(errors') = Len(errors) + 1
               /\ SubSeq(errors', 1, Len(errors)) = errors
               /\ errors'[Len(errors')].line = Len(input')
               /\ AllEntries' = AllEntries
               /\ pc' = "parse"
      ]_vars

\* C5 as stated: once an entry exists, a backtrace line that parses has its
\* frame appended to an entry's backtrace: it is never discarded.
C5_ParsedFrameIsAttached ==
    [][\A i \in LineIds :
            (/\ Consumes(i)
             /\ LineKind[i] = "backtrace"
             /\ ParsedFrame[i].ok
             /\ Len(AllEntries) > 0)
            => \E k \in 1..Len(AllEntries) :
                  /\ k <= Len(AllEntries')
                  /\ AllEntries'[k].backtrace =
                        Append(AllEntries[k].backtrace, ParsedFrame[i].val)
      ]_vars

\* C6 as stated: the arguments of a merged entry are the arguments of the
\* unfinished line followed by those of the resumed line.
C6_MergeConcatenatesArguments ==
    [][\A i \in LineIds :
            MergeStep(i) =>
                LET e == ParsedLine[i].val
                    k == unfinished[e.pid] + 1
                IN  AllEntries'[k].arguments = AllEntries[k].arguments \o e.arguments
      ]_vars

\* ^0x[0-9a-f]+$
IsLowerHexAddress(a) ==
    /\ StartsWith(a, "0x")
    /\ Len(a) > 2
    /\ SpanLen(From(a, 2), Digits \cup {"a", "b", "c", "d", "e", "f"}) = Len(a) - 2

\* C7 as stated: every frame attached to an entry has an address matching
\* ^0x[0-9a-f]+$.
C7_AttachedFramesHaveAddress ==
    \A k \in 1..Len(AllEntries) :
        \A f \in 1..Len(AllEntries[k].backtrace) :
            IsLowerHexAddress(AllEntries[k].backtrace[f].address)

-----------------------------------------------------------------------------
(* Claims about the line parser *)

\* the fields of an entry other than pid and timestamp
CallOf(e) ==
    [syscall_name  |-> e.syscall_name,
     arguments     |-> e.arguments,
     return_value  |-> e.return_value,
     errno         |-> e.errno,
     duration      |-> e.duration,
     is_unfinished |-> e.is_unfinished,
     is_resumed    |-> e.is_resumed,
     signal        |-> e.signal,
     exit_info     |-> e.exit_info]

\* C9: in each of the four prefix dialects the pid is the leading integer, or 0
\* when the line has none, the timestamp is the time token, or empty when the
\* line has none, and everything else is what the body alone parses to; a body
\* the parser rejects is rejected in every dialect.
C9_PrefixDialects ==
    pc = "lexed" =>
        /\ result.ok = (shape.body.name # "")
        /\ result.ok = parse_strace_line(shape.body.text).ok
        /\ result.ok =>
              /\ result.val.pid = shape.pid.value
              /\ result.val.timestamp = shape.timestamp
              /\ result.val.syscall_name = shape.body.name
              /\ CallOf(result.val) = CallOf(parse_strace_line(shape.body.text).val)

\* a line with both a PID and a fractional timestamp was parsed, errno included
C9_Witness ==
    /\ pc = "lexed"
    /\ shape.pid.value = 7193
    /\ shape.timestamp = "11:52:10.217868"
    /\ result.ok
    /\ result.val.pid = 7193
    /\ result.val.syscall_name = "access"
    /\ result.val.errno = Some([code |-> "ENOENT", message |-> "No such file or directory"])

RECURSIVE WellNested(_, _, _, _)
\* the text s from offset i on closes the brackets in `open` (innermost last) in
\* order and leaves none open, brackets inside double-quoted strings not
\* counting and a backslash inside a string escaping the next character
WellNested(s, i, open, quoted) ==
    IF i >= Len(s) THEN open = "" /\ ~quoted
    ELSE IF quoted
    THEN (IF CharAt(s, i) = "\\" THEN i + 1 < Len(s) /\ WellNested(s, i + 2, open, TRUE)
          ELSE WellNested(s, i + 1, open, CharAt(s, i) # "\""))
    ELSE IF CharAt(s, i) = "\"" THEN WellNested(s, i + 1, open, TRUE)
    ELSE IF CharAt(s, i) \in {"(", "{", "["}
    THEN WellNested(s, i + 1, open \o CharAt(s, i), FALSE)
    ELSE IF CharAt(s, i) \in {")", "}", "]"}
    THEN /\ open # ""
         /\ <<CharAt(open, Len(open) - 1), CharAt(s, i)>>
                \in {<<"(", ")">>, <<"{", "}">>, <<"[", "]">>}
         /\ WellNested(s, i + 1, Slice(open, 0, Len(open) - 1), FALSE)
    ELSE WellNested(s, i + 1, open, FALSE)

\* C10 as stated: the arguments of a regular syscall line are the text between
\* the opening parenthesis and its matching closing parenthesis, matching over
\* (), {} and [] and skipping quoted strings, and the return value is parsed from
\* what follows it.
C10_ArgumentsUpToMatchingParen ==
    (pc = "scanned" /\ WellNested(Join(shape), 0, "", FALSE)) =>
        /\ result.ok
        /\ result.val.arguments = Join(shape)
        /\ result.val.return_value = Some("7")

-----------------------------------------------------------------------------
(* Claims about the resolver *)

\* this step is a call of resolve_frame for (binary, address)
Resolves(binary, address) ==
    /\ Len(calls') > Len(calls)
    /\ calls'[Len(calls) + 1] = Call("resolve_frame", binary, address)

\* the (binary, address) pairs requested so far
RequestedPairs(log) ==
    {<<log[i].binary, log[i].address>> : i \in {j \in 1..Len(log) : log[j].op = "resolve_frame"}}

\* C11: every call of resolve_frame leaves its key in the cache, resolved or not,
\* so that cache_size is the number of distinct (binary, address) pairs requested
\* so far; a call for the pair of the call just before it attaches the same
\* result and asks nothing of addr2line.
C11_CacheConsultedAndPopulated ==
    [][/\ Cardinality(DOMAIN resolver.cache') = Cardinality(RequestedPairs(calls'))
       /\ \A binary \in Binaries, address \in Addresses :
            Resolves(binary, address) =>
                /\ cache_key(binary, address) \in DOMAIN resolver.cache'
                /\ last_frame'[1].resolved = resolver.cache'[cache_key(binary, address)]
                /\ (/\ Len(Requests) > 0
                    /\ Requests[Len(Requests)] = Call("resolve_frame", binary, address))
                   => /\ last_frame' = last_frame
                      /\ calls' = Append(calls, Call("resolve_frame", binary, address))
                      /\ resolver' = resolver
      ]_vars

\* the same frame was resolved twice in a row, to a source location, and
\* find_frames was called once
C11_Witness ==
    /\ Len(Requests) = 2
    /\ Requests[1] = Requests[2]
    /\ IsSome(last_frame[1].resolved)
    /\ Len(SelectSeq(calls, LAMBDA c : c.op = "find_frames")) = 1
    /\ Cardinality(DOMAIN resolver.cache) = 1

\* C12 as stated: once Loader::new has failed for a binary it is not called for
\* that binary again.
C12_FailedLoaderNotRetried ==
    \A i, j \in 1..Len(calls) :
        (/\ i < j
         /\ calls[i].op = "Loader::new"
         /\ ~Loader_new(calls[i].binary))
        => ~(calls[j].op = "Loader::new" /\ calls[j].binary = calls[i].binary)

\* a frame the iterator yields has a location with a known file and a line
IsComplete(item) ==
    /\ ~item.err
    /\ item.location # None
    /\ item.location[1].file \notin {None, Some("??")}
    /\ item.location[1].line # None

\* the items the iterator yields before it fails
Yielded(items) ==
    SubSeq(items, 1, SetMin({i \in 1..Len(items) : items[i].err} \cup {Len(items) + 1}) - 1)

\* C13 as stated: a frame without a file or a line is dropped alone: the frames
\* returned are the complete frames the iterator yields, in order.
C13_OnlyThePartialFrameIsDropped ==
    (pc = "collected" /\ shape.ok) =>
        LET kept == SelectSeq(Yielded(shape.val), IsComplete)
        IN  IF Len(kept) = 0 THEN result = None
            ELSE /\ IsSome(result)
                 /\ Len(result[1]) = Len(kept)
                 /\ \A k \in 1..Len(kept) :
                       /\ result[1][k].file = kept[k].location[1].file[1]
                       /\ result[1][k].line = kept[k].location[1].line[1]

\* C14: a resolution yields nothing or a non-empty sequence without the file
\* `??`, whose last element is not inlined and whose earlier elements all
\* are; when no frame is kept it yields nothing.
C14_ResolvedSequenceWellFormed ==
    pc = "collected" =>
        /\ IsSome(result) =>
              /\ Len(result[1]) > 0
              /\ \A k \in 1..Len(result[1]) :
                    /\ result[1][k].file # "??"
                    /\ result[1][k].is_inlined = (k < Len(result[1]))
        /\ (shape.ok /\ \A i \in 1..Len(shape.val) : ~IsComplete(shape.val[i]))
              => result = None
        /\ ~shape.ok => result = None

\* two frames were kept: the first is marked inlined, the last is not
C14_Witness ==
    /\ pc = "collected"
    /\ IsSome(result)
    /\ Len(result[1]) = 2
    /\ result[1][1].is_inlined
    /\ ~result[1][2].is_inlined

-----------------------------------------------------------------------------
(* Claims about the process graph, checked under SpecGraph *)

\* the closed lifetime intervals of a and b overlap
LifetimesOverlap(a, b) ==
    /\ processes[a].first_entry_idx <= processes[b].last_entry_idx
    /\ processes[b].first_entry_idx <= processes[a].last_entry_idx

\* C15: in the graph build returns, two distinct PIDs whose lifetime intervals
\* [first_entry_idx, last_entry_idx] overlap are on distinct lanes.
C15_OverlappingLifetimesDistinctLanes ==
    pc = "built" =>
        \A a, b \in DOMAIN processes :
            (a # b /\ LifetimesOverlap(a, b)) => processes[a].column # processes[b].column

\* three processes on two lanes: two of them overlap, and a lane was reused
C15_Witness ==
    /\ pc = "built"
    /\ Cardinality(DOMAIN processes) = 3
    /\ max_columns = 2
    /\ \E a, b \in DOMAIN processes : a # b /\ LifetimesOverlap(a, b)
    /\ \E a, b \in DOMAIN processes :
          a # b /\ processes[a].column = processes[b].column

\* the event the second pass takes in this step
ThisEvent == pids_ordered[event_index + 1]

\* this step of the second pass takes a start event / an end event
TakesStart == pc = "assign" /\ event_index' = event_index + 1 /\ ~ThisEvent.end

TakesEnd == pc = "assign" /\ event_index' = event_index + 1 /\ ThisEvent.end

\* C16: a start event gives its PID the smallest lane of the free pool, which
\* leaves the pool, or, the pool being empty, the lane max_columns, which is then
\* incremented; an end event returns the lane of its PID to the pool and nothing
\* else does; every assigned lane is below max_columns.
C16_SmallestFreeLane ==
    [][/\ TakesStart =>
            /\ ThisEvent.pid \in DOMAIN processes'
            /\ IF Len(free_columns) > 0
               THEN /\ processes'[ThisEvent.pid].column = SetMin(Range(free_columns))
                    /\ Len(free_columns') = Len(free_columns) - 1
                    /\ Range(free_columns') \subseteq Range(free_columns)
                    /\ max_columns' = max_columns
               ELSE /\ processes'[ThisEvent.pid].column = max_columns
                    /\ max_columns' = max_columns + 1
                    /\ free_columns' = free_columns
       /\ TakesEnd =>
            /\ processes' = processes
            /\ max_columns' = max_columns
            /\ free_columns' =
                  IF ThisEvent.pid \in DOMAIN processes
                  THEN Append(free_columns, processes[ThisEvent.pid].column)
                  ELSE free_columns
       /\ \A p \in DOMAIN processes' : processes'[p].column < max_columns'
      ]_vars

\* two lanes were freed, the larger first, and the next process took the smaller
C16_Witness ==
    /\ pc = "assign"
    /\ event_index > 0
    /\ ~pids_ordered[event_index].end
    /\ processes[pids_ordered[event_index].pid].column = 0
    /\ free_columns = <<1>>
    /\ Cardinality(DOMAIN processes) = 3

\* A issues clone3 returning B, A and B each emit one syscall, A issues wait4
\* returning B
ForkWaitTrace ==
    <<GraphEntry(1, "clone3", "2"), GraphEntry(1, "write", "5"),
      GraphEntry(2, "write", "5"), GraphEntry(1, "wait4", "2")>>

\* the glyphs of a rendered row
Glyphs(row) == [c \in 1..Len(row) |-> row[c][1]]

\* C17 as stated: for the fork-wait trace max_columns is 2, A is on lane 0 and B
\* on lane 1, the clone3 row is [*, fork corner], B's row is [vertical, *], the
\* wait4 row is [*, wait corner], and B's lane is free after the walk.
C17_ForkWaitTraceRendering ==
    (pc = "built" /\ build_entries = ForkWaitTrace) =>
        /\ max_columns = 2
        /\ processes[1].column = 0
        /\ processes[2].column = 1
        /\ Glyphs(render_graph_for_entry(0, build_entries[1])) = <<GlyphHere, GlyphFork>>
        /\ Glyphs(render_graph_for_entry(2, build_entries[3])) = <<GlyphVertical, GlyphHere>>
        /\ Glyphs(render_graph_for_entry(3, build_entries[4])) = <<GlyphHere, GlyphWait>>
        /\ 1 \in Range(free_columns)

\* the keys of m in ascending order: one of the orders a HashMap may yield
AscendingOrder(m) ==
    CHOOSE o \in IterationOrders(m) : \A i, j \in 1..Len(o) : i < j => o[i] < o[j]

RECURSIVE second_pass(_, _, _, _, _)
\* `processes` after the second pass over events from event i on
second_pass(events, i, free, maxc, procs) ==
    IF i > Len(events) THEN procs
    ELSE IF events[i].end
    THEN second_pass(events, i + 1,
                     IF events[i].pid \in DOMAIN procs
                     THEN Append(free, procs[events[i].pid].column) ELSE free,
                     maxc, procs)
    ELSE IF Len(free) > 0
    THEN second_pass(events, i + 1, Tail(sort_unstable(free)), maxc,
                     map_insert(procs, events[i].pid,
                                NewProcessInfo(events[i].pid, Head(sort_unstable(free)),
                                               i - 1, events[i].idx)))
    ELSE second_pass(events, i + 1, free, maxc + 1,
                     map_insert(procs, events[i].pid,
                                NewProcessInfo(events[i].pid, maxc, i - 1, events[i].idx)))

\* C18 as stated: the lane and the colour of every PID do not depend on the
\* order in which the two maps are iterated: they are those of the run that
\* iterates both in ascending order.
C18_LanesAndColoursIndependentOfOrder ==
    pc = "built" =>
        LET ref == second_pass(ordered_events(AscendingOrder(pid_first_seen),
                                              AscendingOrder(pid_last_seen)),
                               1, <<>>, 0, <<>>)
        IN  \A p \in DOMAIN processes :
                /\ processes[p].column = ref[p].column
                /\ processes[p].color = ref[p].color


-----------------------------------------------------------------------------
(* Claims about the App, checked under SpecApp *)

\* C19: after any sequence of key events (navigation, fold, bulk expand and
\* collapse, filter, ghost toggle, search), whenever display_lines is not
\* empty, selected_line < len(display_lines).
C19_SelectionInRange ==
    app.display_lines # <<>> => app.selected_line < Len(app.display_lines)

\* a key has just rebuilt a list in which a syscall is hidden and an entry is
\* expanded, and the cursor is below the first line
C19_Witness ==
    /\ pc = "editor"
    /\ app.rebuilt
    /\ app.hidden_syscalls # {}
    /\ app.expanded_items # {}
    /\ app.selected_line > 0
    /\ app.selected_line < Len(app.display_lines)

\* max(0, len(display_lines) - visible_height)
ScrollBound(a) ==
    IF Len(a.display_lines) - a.last_visible_height > 0
    THEN Len(a.display_lines) - a.last_visible_height
    ELSE 0

\* C20 as stated: after every key event that rebuilt the display lines or
\* changed scroll_offset, scroll_offset <= max(0, len(display_lines) -
\* visible_height).
C20_ScrollOffsetInRange ==
    [][pc = "event" /\ pc' # "event"
       /\ (app'.rebuilt \/ app'.scroll_offset # app.scroll_offset)
           => app'.scroll_offset <= ScrollBound(app')]_vars

\* C21: whenever the main search query is not empty, after any sequence of key
\* events, search_state.matches is the ascending list of the indices of the
\* display lines whose text contains the query, case-insensitively.
C21_MatchesAreTheMatchingLines ==
    app.search_state.query # "" => app.search_state.matches = matching_lines(app)


\* no overlay takes the key: handle_event reaches the main-view bindings
MainView(a) == ~a.search_state.active /\ ~a.show_filter_modal /\ ~a.show_help

\* the App when a key event arrives, as HandleEvent passes it on
BeforeKey(a) == [a EXCEPT !.rebuilt = FALSE]

\* the state handle_event(event) leaves
AfterKey(a, event) == handle_event(BeforeKey(a), event)

\* the step is the key `event` handled in the main view
MainKeyStep(event) ==
    /\ pc = "event"
    /\ pc' = "editor"
    /\ MainView(app)
    /\ app' = AfterKey(app, event)

\* the cursor is inside the viewport
InViewport(a) ==
    /\ a.scroll_offset <= a.selected_line
    /\ a.selected_line < a.scroll_offset + a.last_visible_height

\* the line `n` is to move to from line sel
NextMatch(matches, sel) ==
    IF \E k \in 1..Len(matches) : matches[k] > sel
    THEN SetMin({matches[k] : k \in {j \in 1..Len(matches) : matches[j] > sel}})
    ELSE matches[1]

\* the line `N` is to move to from line sel
PreviousMatch(matches, sel) ==
    IF \E k \in 1..Len(matches) : matches[k] < sel
    THEN SetMax({matches[k] : k \in {j \in 1..Len(matches) : matches[j] < sel}})
    ELSE matches[Len(matches)]

\* C22: with a non-empty matches list, `n` moves the cursor to the smallest
\* match index strictly greater than selected_line, or to the first match when
\* there is none, and `N` to the largest match index strictly smaller, or to
\* the last match; afterwards selected_line is a member of matches and lies
\* inside the viewport.
C22_MatchStepsWrapAround ==
    [][/\ MainKeyStep(Char("n")) /\ app.search_state.matches # <<>>
           => /\ app'.selected_line
                    = NextMatch(app.search_state.matches, app.selected_line)
              /\ app'.selected_line \in Range(app'.search_state.matches)
              /\ InViewport(app')
       /\ MainKeyStep(Char("N")) /\ app.search_state.matches # <<>>
           => /\ app'.selected_line
                    = PreviousMatch(app.search_state.matches, app.selected_line)
              /\ app'.selected_line \in Range(app'.search_state.matches)
              /\ InViewport(app')]_vars

\* a key of the main view that did not rebuild the list has left the cursor
\* on the second of several matches of an accepted query, the list scrolled
C22_Witness ==
    /\ pc = "editor"
    /\ MainView(app)
    /\ ~app.rebuilt
    /\ Len(app.search_state.matches) >= 2
    /\ app.search_state.current_match_idx = 1
    /\ app.selected_line = app.search_state.matches[2]
    /\ app.scroll_offset > 0


\* the step is the key `event` handled by the search input
SearchKeyStep(event) ==
    /\ pc = "event"
    /\ pc' = "editor"
    /\ app.search_state.active
    /\ app' = AfterKey(app, event)

\* C23: for any sequence of query edits and match steps typed while the search
\* input is active, Esc restores selected_line and scroll_offset to exactly the
\* values they had when `/` was pressed, deactivates the search, and leaves the
\* query and the matches empty.  Checked step by step: `/` saves the cursor
\* and the scroll offset, no step of an active search changes what was saved,
\* and Esc puts the saved values back.
C23_EscRestoresThePositionOfSlash ==
    [][/\ MainKeyStep(Char("/"))
           => /\ app'.search_state.active
              /\ app'.search_state.original_position = app.selected_line
              /\ app'.search_state.original_scroll = app.scroll_offset
       /\ app.search_state.active /\ app'.search_state.active
           => /\ app'.search_state.original_position = app.search_state.original_position
              /\ app'.search_state.original_scroll = app.search_state.original_scroll
       /\ SearchKeyStep(Key("Esc"))
           => /\ app'.selected_line = app.search_state.original_position
              /\ app'.scroll_offset = app.search_state.original_scroll
              /\ ~app'.search_state.active
              /\ app'.search_state.query = ""
              /\ app'.search_state.matches = <<>>]_vars

\* a search started on a scrolled list has been left with an empty query, the
\* cursor and the scroll offset being those saved by `/`
C23_Witness ==
    /\ pc = "editor"
    /\ MainView(app)
    /\ app.search_state.query = ""
    /\ app.search_state.matches = <<>>
    /\ app.search_state.original_scroll > 0
    /\ app.selected_line = app.search_state.original_position
    /\ app.scroll_offset = app.search_state.original_scroll


\* the state at the next key event when the terminal keeps its size: the
\* editor request taken, then the frame drawn
NextFrame(a) ==
    draw_list([a EXCEPT !.pending_editor_open = None, !.rebuilt = FALSE],
              a.last_visible_height)

\* the cursor's row on the screen
ScreenRow(a) == a.selected_line - a.scroll_offset

\* C24: from any main-view state, expand-all (`e`) followed immediately by
\* collapse-all (`c`) leaves the cursor on a line of the entry it was on
\* before, on the same row of the screen.
C24_ExpandAllThenCollapseAll ==
    [][MainKeyStep(Char("e"))
           => /\ current_entry_idx(AfterKey(NextFrame(app'), Char("c")))
                    = current_entry_idx(app)
              /\ ScreenRow(AfterKey(NextFrame(app'), Char("c"))) = ScreenRow(app)]_vars


\* C24 amended: expand-all followed immediately by collapse-all leaves the
\* cursor on the header of the entry it was on before; its row on the screen
\* is the row it had before when the header's index in the collapsed list is
\* at least that row, and the header's index (scroll_offset 0) otherwise.
C24_ExpandAllThenCollapseAllWhenPossible ==
    [][MainKeyStep(Char("e"))
           => /\ current_entry_idx(AfterKey(NextFrame(app'), Char("c")))
                    = current_entry_idx(app)
              /\ app.display_lines # <<>>
                    => /\ line_at(AfterKey(NextFrame(app'), Char("c")),
                                  AfterKey(NextFrame(app'), Char("c")).selected_line).kind
                            = "SyscallHeader"
                       /\ ScreenRow(AfterKey(NextFrame(app'), Char("c")))
                            = min(ScreenRow(app),
                                  AfterKey(NextFrame(app'), Char("c")).selected_line)]_vars

\* a key of the main view has rebuilt a list of collapsed entries, the cursor
\* on the third header and on the second row of the screen
C24_Witness ==
    /\ pc = "editor"
    /\ MainView(app)
    /\ app.rebuilt
    /\ app.expanded_items = {}
    /\ app.expanded_arguments = {}
    /\ app.expanded_backtraces = {}
    /\ app.selected_line = 2
    /\ app.scroll_offset = 1


\* the step is the key `event` handled by the list of the filter modal, its
\* own search input not active
ModalKeyStep(event) ==
    /\ pc = "event"
    /\ pc' = "editor"
    /\ ~app.search_state.active
    /\ app.show_filter_modal
    /\ ~app.modal_search_state.active
    /\ app' = AfterKey(app, event)

\* C25: the toggle-visibility action applied twice in succession, `h` in the
\* main view or Space/Enter on the same row of the filter modal, leaves
\* hidden_syscalls equal to its value before the first toggle, in ghost and in
\* non-ghost mode.
C25_ToggleTwiceKeepsTheFilterSet ==
    [][/\ MainKeyStep(Char("h"))
           => AfterKey(NextFrame(app'), Char("h")).hidden_syscalls = app.hidden_syscalls
       /\ ModalKeyStep(Key("Enter"))
           => AfterKey(NextFrame(app'), Key("Enter")).hidden_syscalls = app.hidden_syscalls]_vars


\* the step is a key event handled by handle_event
KeyStep == pc = "event" /\ pc' \in {"editor", "quit"}

\* the fields of App the search handler writes
SearchFields == {"search_state", "selected_line", "scroll_offset", "rebuilt"}

\* the fields of App the filter modal's handler writes, the rebuild included
ModalFields ==
    {"show_filter_modal", "filter_modal_state", "hidden_syscalls", "display_lines",
     "selected_line", "scroll_offset", "search_state", "modal_search_state", "rebuilt"}

\* C26: key events are dispatched by modal precedence.  While the main search
\* input is active a key is handled by the search handler only; otherwise,
\* while the filter modal is shown, by the modal's handler only; otherwise,
\* while help is shown, only `?` and Esc have an effect; the main-view bindings
\* (quit, navigation, fold, filter, search start) change state only when none
\* of the three is active.
C26_ModalPrecedence ==
    [][KeyStep =>
        /\ app.search_state.active
              => /\ \E event \in KeyEvents : app' = handle_search_event(BeforeKey(app), event)
                 /\ \A f \in DOMAIN app \ SearchFields : app'[f] = app[f]
        /\ ~app.search_state.active /\ app.show_filter_modal
              => /\ \E event \in KeyEvents :
                        app' = handle_filter_modal_event(BeforeKey(app), event)
                 /\ \A f \in DOMAIN app \ ModalFields : app'[f] = app[f]
                 /\ ~app'.search_state.active
                 /\ app'.search_state.query = app.search_state.query
        /\ ~app.search_state.active /\ ~app.show_filter_modal /\ app.show_help
              => /\ \A f \in DOMAIN app \ {"show_help", "rebuilt"} : app'[f] = app[f]
                 /\ \A event \in KeyEvents :
                        ~is_char(event, "?") /\ event.code # "Esc"
                            => AfterKey(app, event) = BeforeKey(app)]_vars

\* the filter modal is shown and has handled keys since it was opened: its
\* cursor is below the first row and a syscall is hidden
C26_Witness ==
    /\ pc = "editor"
    /\ app.show_filter_modal
    /\ app.filter_modal_state.selected_index > 0
    /\ app.hidden_syscalls # {}
    /\ ~app.should_quit
    /\ ~app.show_help
    /\ ~app.search_state.active


\* the cursor is on a line below a syscall header: inside an expanded fold
InsideFold(a) ==
    /\ a.selected_line < Len(a.display_lines)
    /\ line_at(a, a.selected_line).kind # "SyscallHeader"

\* C27: from any main-view state with the cursor on a line inside an expanded
\* fold, Left and then immediately Right is exactly reversible: the three
\* expansion sets, selected_line and scroll_offset return to the values they
\* had before Left.
C27_LeftThenRightIsReversible ==
    [][MainKeyStep(Key("Left")) /\ InsideFold(app)
           => /\ AfterKey(NextFrame(app'), Key("Right")).expanded_items = app.expanded_items
              /\ AfterKey(NextFrame(app'), Key("Right")).expanded_arguments
                    = app.expanded_arguments
              /\ AfterKey(NextFrame(app'), Key("Right")).expanded_backtraces
                    = app.expanded_backtraces
              /\ AfterKey(NextFrame(app'), Key("Right")).selected_line = app.selected_line
              /\ AfterKey(NextFrame(app'), Key("Right")).scroll_offset = app.scroll_offset]_vars


\* the indices of the entries that are not hidden, or of all with show_hidden
ShownEntries(a) ==
    SelectSeq([k \in 1..Len(a.entries) |-> k - 1],
              LAMBDA idx : a.show_hidden
                           \/ entry_at(a, idx).syscall_name \notin a.hidden_syscalls)

\* the entries of the syscall headers of the list, in the order of the list
HeaderEntries(a) ==
    [k \in 1..Len(SelectSeq(a.display_lines, LAMBDA line : line.kind = "SyscallHeader")) |->
        SelectSeq(a.display_lines, LAMBDA line : line.kind = "SyscallHeader")[k].entry_idx]

\* every other line follows a line of its entry, and the entry is expanded
ChildrenFollowTheirHeader(a) ==
    \A i \in 1..Len(a.display_lines) :
        a.display_lines[i].kind # "SyscallHeader"
            => /\ i > 1
               /\ a.display_lines[i - 1].entry_idx = a.display_lines[i].entry_idx
               /\ a.display_lines[i].entry_idx \in a.expanded_items

\* the header of an expanded entry that has child lines is followed by one
ExpandedHeadersHaveChildren(a) ==
    \A i \in 1..Len(a.display_lines) :
        (/\ a.display_lines[i].kind = "SyscallHeader"
         /\ a.display_lines[i].entry_idx \in a.expanded_items
         /\ expanded_lines(a, a.display_lines[i].entry_idx,
                           entry_at(a, a.display_lines[i].entry_idx)) # <<>>)
            => /\ i < Len(a.display_lines)
               /\ a.display_lines[i + 1].kind # "SyscallHeader"
               /\ a.display_lines[i + 1].entry_idx = a.display_lines[i].entry_idx

\* C28: at every frame draw, display_lines is the list the build procedure
\* produces from the current entries, expansion sets, hidden set and
\* show_hidden flag: one SyscallHeader per entry that is not hidden (per entry
\* with show_hidden), in increasing entry order, each immediately followed by
\* its child lines iff the entry is expanded; no key event changes those
\* inputs without a rebuild completing before the next draw.
C28_DrawnListIsTheBuiltList ==
    pc = "draw"
        => /\ app.display_lines = build_lines(app, 1)
           /\ HeaderEntries(app) = ShownEntries(app)
           /\ ChildrenFollowTheirHeader(app)
           /\ ExpandedHeadersHaveChildren(app)

\* a frame is about to be drawn with an entry hidden, another one expanded and
\* its backtrace resolved: the entries, the filter and the folds have changed
C28_Witness ==
    /\ pc = "draw"
    /\ Len(ShownEntries(app)) < Len(app.entries)
    /\ app.expanded_backtraces # {}
    /\ \E i \in 1..Len(app.display_lines) : app.display_lines[i].kind = "BacktraceResolved"



-----------------------------------------------------------------------------
(* Further claims about the process graph, checked under SpecGraph *)

\* in the walk, which takes pids_ordered from first to last, the event at
\* position a is processed before the event at position b
ProcessedBefore(a, b) == a < b

\* C29: in the column-assignment walk over the merged start/end event list
\* ordered by entry index, when an end event and a start event (of another
\* PID) carry the same index the end event is processed before the start
\* event, and a PID whose last event is at index i has returned its lane to
\* the pool before a PID whose first event is at index i + 1 is assigned one.
C29_EndsBeforeStarts ==
    pc \in {"assign", "built"} =>
        \A a, b \in 1..Len(pids_ordered) :
            (/\ pids_ordered[a].end
             /\ ~pids_ordered[b].end
             /\ pids_ordered[a].pid # pids_ordered[b].pid
             /\ pids_ordered[b].idx \in {pids_ordered[a].idx, pids_ordered[a].idx + 1})
                => ProcessedBefore(a, b)


\* C29 amended: in the walk, when a start event and an end event carry the
\* same index the start event is processed before the end event, and a PID
\* whose last event is at index i has returned its lane to the pool before a
\* PID whose first event is at index i + 1 is assigned one.
C29_StartsBeforeEndsAtTies ==
    pc \in {"assign", "built"} =>
        \A a, b \in 1..Len(pids_ordered) :
            /\ (/\ pids_ordered[a].end
                /\ ~pids_ordered[b].end
                /\ pids_ordered[b].idx = pids_ordered[a].idx)
                   => ProcessedBefore(b, a)
            /\ (/\ pids_ordered[a].end
                /\ ~pids_ordered[b].end
                /\ pids_ordered[b].idx = pids_ordered[a].idx + 1)
                   => ProcessedBefore(a, b)

\* the walk is over a list in which a PID ends at the index another PID
\* starts at, and a PID ends one index before another PID starts
C29_Witness ==
    /\ pc = "built"
    /\ \E a, b \in 1..Len(pids_ordered) :
          /\ pids_ordered[a].end
          /\ ~pids_ordered[b].end
          /\ pids_ordered[a].pid # pids_ordered[b].pid
          /\ pids_ordered[b].idx = pids_ordered[a].idx
    /\ \E a, b \in 1..Len(pids_ordered) :
          /\ pids_ordered[a].end
          /\ ~pids_ordered[b].end
          /\ pids_ordered[a].pid # pids_ordered[b].pid
          /\ pids_ordered[b].idx = pids_ordered[a].idx + 1


\* C30: for every PID of the process graph, the colour recorded for the PID
\* (get_color, used for its PID label) is the colour of the lane it was
\* assigned (get_color_for_column, used for the glyphs of that lane).
C30_PidColourIsLaneColour ==
    pc = "built" =>
        \A pid \in DOMAIN processes :
            get_color(pid) = get_color_for_column(processes[pid].column)


\* the rows of a finished graph: entry index i (0-based) and its entry
GraphRows == {i \in 0..(Len(build_entries) - 1) : pc = "built" /\ enabled}

\* the lane of pid is its own at entry index i
OccupiedBy(pid, i) ==
    /\ pid \in DOMAIN processes
    /\ processes[pid].first_entry_idx <= i
    /\ i <= processes[pid].last_entry_idx

\* the row of entry index i drawn as a normal row
NormalRow(i) ==
    [c \in 1..max_columns |-> plain_glyph(c - 1, i, column_of(build_entries[i + 1].pid))]

\* C31: in the row of a wait by PID p a wait corner is drawn only at the lane of
\* the PID the wait resolves to, only when that lane is not p's, and only when
\* the lane is the waited PID's at that entry index; when the waited PID has no
\* lane, or its lane is not its own at that index, the row is a normal row.
C31_WaitCornerOnlyAtTheWaitedLane ==
    \A i \in GraphRows :
        /\ \A c \in 0..(max_columns - 1) :
              glyph_at(c, i, build_entries[i + 1]) = GlyphWait =>
                  /\ waited_pid(build_entries[i + 1]) # None
                  /\ OccupiedBy(waited_pid(build_entries[i + 1])[1], i)
                  /\ c = processes[waited_pid(build_entries[i + 1])[1]].column
                  /\ c # column_of(build_entries[i + 1].pid)
        /\ (/\ is_wait_syscall(build_entries[i + 1].syscall_name)
            /\ waited_pid(build_entries[i + 1]) # None
            /\ ~OccupiedBy(waited_pid(build_entries[i + 1])[1], i))
           => Glyphs(render_graph_for_entry(i, build_entries[i + 1])) = NormalRow(i)


-----------------------------------------------------------------------------
(* Further claims about the App, checked under SpecApp *)

\* a key of the main view that expands the collapsed header under the cursor
ExpandStep ==
    /\ pc = "event"
    /\ pc' = "editor"
    /\ MainView(app)
    /\ \E event \in {Key("Enter"), Key("Right")} : app' = AfterKey(app, event)
    /\ app.selected_line < Len(app.display_lines)
    /\ line_at(app, app.selected_line).kind \in Headers
    /\ ~is_expanded(app, line_at(app, app.selected_line).kind,
                    line_at(app, app.selected_line).entry_idx)

\* the last display line of the entry of line h
LastLineOf(a, h) ==
    SetMax({i \in 0..(Len(a.display_lines) - 1) :
                line_at(a, i).entry_idx = line_at(a, h).entry_idx})

\* the scroll offset the expansion of the header at line h asks for
ExpansionScroll(a, h, visible_height) ==
    min(min(saturating_sub(LastLineOf(a, h) + 3, visible_height), saturating_sub(h, 2)),
        saturating_sub(Len(a.display_lines), visible_height))

\* C32 as stated: after the header at line h is expanded, scroll_offset is the
\* smallest offset that shows the entry's last line with a gap of 2 rows, capped
\* at max(0, h - 2) and at max_scroll, if that last line is below the viewport,
\* and is unchanged otherwise; in both cases line h is inside the viewport.
C32_ExpansionScroll ==
    [][ExpandStep =>
        /\ line_at(app', app.selected_line) = line_at(app, app.selected_line)
        /\ IF LastLineOf(app', app.selected_line) + 1
                  > app.scroll_offset + app.last_visible_height
           THEN app'.scroll_offset =
                    ExpansionScroll(app', app.selected_line, app.last_visible_height)
           ELSE app'.scroll_offset = app.scroll_offset
        /\ app'.scroll_offset <= app.selected_line
        /\ app.selected_line < app'.scroll_offset + app.last_visible_height
      ]_vars


\* C32, amended: the same scroll offset, and line h is inside the viewport
\* whenever the list is at least 3 rows high.
C32_ExpansionScrollOfTallLists ==
    [][ExpandStep =>
        /\ line_at(app', app.selected_line) = line_at(app, app.selected_line)
        /\ IF LastLineOf(app', app.selected_line) + 1
                  > app.scroll_offset + app.last_visible_height
           THEN app'.scroll_offset =
                    ExpansionScroll(app', app.selected_line, app.last_visible_height)
           ELSE app'.scroll_offset = app.scroll_offset
        /\ app.last_visible_height >= 3 =>
              /\ app'.scroll_offset <= app.selected_line
              /\ app.selected_line < app'.scroll_offset + app.last_visible_height
      ]_vars

\* a header was expanded in a list of 3 rows and the list was scrolled for it
C32_Witness ==
    /\ pc = "editor"
    /\ app.rebuilt
    /\ app.last_visible_height = 3
    /\ app.selected_line < Len(app.display_lines)
    /\ line_at(app, app.selected_line).kind \in Headers
    /\ is_expanded(app, line_at(app, app.selected_line).kind,
                   line_at(app, app.selected_line).entry_idx)
    /\ IsSome(app.last_collapsed_scroll)
    /\ app.last_collapsed_scroll[1] < app.scroll_offset
    /\ app.scroll_offset = saturating_sub(app.selected_line, 2)


\* the keys of a page or half-page scroll
PageKeys == {Key("PageUp"), Key("PageDown"), Ctrl("u"), Ctrl("d")}

\* a page or half-page scroll of a non-empty list in the main view
PageStep ==
    /\ pc = "event"
    /\ pc' = "editor"
    /\ MainView(app)
    /\ app.display_lines # <<>>
    /\ \E event \in PageKeys : app' = AfterKey(app, event)

\* C33: after a page or half-page scroll of a non-empty list scroll_offset is at
\* most max(0, len - visible_height) and the cursor is inside the visible range:
\* scroll_offset <= selected_line <= min(scroll_offset + visible_height, len) - 1.
C33_PageScrollKeepsTheCursorVisible ==
    [][PageStep =>
        /\ app'.scroll_offset
              <= saturating_sub(Len(app'.display_lines), app'.last_visible_height)
        /\ app'.scroll_offset <= app'.selected_line
        /\ app'.selected_line
              <= min(app'.scroll_offset + app'.last_visible_height,
                     Len(app'.display_lines)) - 1
      ]_vars

\* the changes of folds and filters after which the handlers rebuild the list
ViewChanges(a) ==
    {with_expanded(a, kind, idx) : kind \in Headers, idx \in 0..(Len(a.entries) - 1)}
    \cup {with_collapsed(a, kind, idx) : kind \in Headers, idx \in 0..(Len(a.entries) - 1)}
    \cup {toggle_hidden(a, SyscallNames[k]) : k \in 1..Len(SyscallNames)}
    \cup {[a EXCEPT !.show_hidden = ~@],
          [a EXCEPT !.expanded_items = {}, !.expanded_arguments = {},
                    !.expanded_backtraces = {}],
          [a EXCEPT !.hidden_syscalls = {}]}

\* entry idx has a line in the list
EntryShown(a, idx) == \E i \in 1..Len(a.display_lines) : a.display_lines[i].entry_idx = idx

\* the first line of an entry from idx on, line 0 if there is none
FirstLineFrom(a, idx) ==
    IF \E i \in 1..Len(a.display_lines) : a.display_lines[i].entry_idx >= idx
    THEN SetMin({i \in 1..Len(a.display_lines) : a.display_lines[i].entry_idx >= idx}) - 1
    ELSE 0

\* the line the cursor of a is on after the list became that of b is not a
\* line of entry idx: the cursor has to be relocated
CursorLost(a, b, idx) ==
    \/ b.display_lines = <<>>
    \/ line_at(b, min(a.selected_line, Len(b.display_lines) - 1)).entry_idx # idx

\* the rebuild of a into b, the cursor of a being on a line of entry idx
RebuildKeepsTheCursor(a, b, idx) ==
    /\ EntryShown(b, idx) =>
          /\ b.selected_line < Len(b.display_lines)
          /\ line_at(b, b.selected_line).entry_idx = idx
    /\ ~EntryShown(b, idx) => b.selected_line = FirstLineFrom(b, idx)
    /\ (CursorLost(a, b, idx) /\ b.selected_line >= ScreenRow(a))
          => ScreenRow(b) = ScreenRow(a)

\* C34: across any rebuild of the display lines, if the entry under the cursor
\* is still shown the cursor stays on a line of that entry; otherwise it moves to
\* the first line whose entry_idx is at least the remembered one (line 0 if
\* none); when the cursor is relocated, scroll_offset keeps the cursor on its
\* previous row of the screen whenever the new line index is at least that row.
C34_RebuildKeepsTheCursorOnItsEntry ==
    (pc = "event" /\ InViewport(app) /\ app.selected_line < Len(app.display_lines)) =>
        \A a \in ViewChanges(app) :
            RebuildKeepsTheCursor(a, rebuild_display_lines(a),
                                  line_at(app, app.selected_line).entry_idx)


\* the cursor is below the first row of the screen; one change of the view
\* hides its entry and leaves other lines, and another one shifts the lines of
\* its entry, which moves the cursor to another line on the same row
C34_Witness ==
    /\ pc = "event"
    /\ app.selected_line < Len(app.display_lines)
    /\ ScreenRow(app) > 0
    /\ \E a \in ViewChanges(app) :
          /\ ~EntryShown(rebuild_display_lines(a), line_at(app, app.selected_line).entry_idx)
          /\ rebuild_display_lines(a).display_lines # <<>>
    /\ \E a \in ViewChanges(app) :
          /\ CursorLost(a, rebuild_display_lines(a), line_at(app, app.selected_line).entry_idx)
          /\ rebuild_display_lines(a).selected_line # app.selected_line
          /\ ScreenRow(rebuild_display_lines(a)) = ScreenRow(app)


\* Enter in the main view with the cursor on a resolved frame
EnterOnResolved ==
    /\ pc = "event"
    /\ pc' = "editor"
    /\ MainView(app)
    /\ app' = AfterKey(app, Key("Enter"))
    /\ app.selected_line < Len(app.display_lines)
    /\ line_at(app, app.selected_line).kind = "BacktraceResolved"

\* the resolved frame a BacktraceResolved line stands for
ResolvedFrameOf(a, line) ==
    entry_at(a, line.entry_idx).backtrace[line.idx + 1].resolved[1][line.resolved_idx + 1]

\* the request for the resolved frame under the cursor
EditorRequest(a) ==
    <<ResolvedFrameOf(a, line_at(a, a.selected_line)).file,
      ResolvedFrameOf(a, line_at(a, a.selected_line)).line,
      ResolvedFrameOf(a, line_at(a, a.selected_line)).column>>

\* C35: Enter on a BacktraceResolved line sets pending_editor_open to the
\* resolved frame's file, line and column and changes nothing else of the view;
\* a request is only made that way; the loop takes it in the same iteration,
\* before the next frame is drawn and the next key read, so it is taken once
\* and pending_editor_open is empty at every draw.
C35_EditorRequestIsTakenOnce ==
    [][/\ EnterOnResolved =>
              app' = [BeforeKey(app) EXCEPT !.pending_editor_open = Some(EditorRequest(app))]
       /\ app'.pending_editor_open # None /\ app.pending_editor_open = None
              => EnterOnResolved
       /\ app.pending_editor_open # None =>
              /\ pc = "editor"
              /\ pc' = "draw"
              /\ app' = [app EXCEPT !.pending_editor_open = None]
       /\ pc \in {"draw", "event"} => app.pending_editor_open = None
      ]_vars

\* a request for the editor is waiting to be taken by the loop
C35_Witness ==
    /\ pc = "editor"
    /\ app.pending_editor_open # None
    /\ app.selected_line < Len(app.display_lines)
    /\ line_at(app, app.selected_line).kind = "BacktraceResolved"
    /\ app.pending_editor_open = Some(EditorRequest(app))


\* C38: after any sequence of key events an entry whose arguments or backtrace
\* are marked expanded is itself marked expanded: expanded_arguments and
\* expanded_backtraces are subsets of expanded_items.
C38_ExpandedSubtreesOfExpandedEntries ==
    /\ app.expanded_arguments \subseteq app.expanded_items
    /\ app.expanded_backtraces \subseteq app.expanded_items


\* C37: after any sequence of key events at most one of the main search input,
\* the filter modal and the help overlay is active, and the modal's own search
\* is active only while the filter modal is shown.
C37_OneOverlayAtATime ==
    /\ ~(app.search_state.active /\ app.show_filter_modal)
    /\ ~(app.search_state.active /\ app.show_help)
    /\ ~(app.show_filter_modal /\ app.show_help)
    /\ app.modal_search_state.active => app.show_filter_modal

\* a main search was typed and accepted, then the filter modal was opened and
\* its own search started
C37_Witness ==
    /\ pc = "editor"
    /\ app.search_state.query # ""
    /\ ~app.search_state.active
    /\ app.show_filter_modal
    /\ app.modal_search_state.active
    /\ ~app.show_help


\* the indices of s are indices of a list of n elements
ValidIndices(s, n) == \A k \in 1..Len(s) : s[k] >= 0 /\ s[k] < n

\* C40: after any sequence of key events and rebuilds, for the main search and
\* for the modal search, every index in matches is a valid index into the list
\* it refers to (display_lines, the modal's syscall list), and whenever matches
\* is not empty current_match_idx < len(matches).
C40_MatchesAreValidIndices ==
    /\ ValidIndices(app.search_state.matches, Len(app.display_lines))
    /\ app.search_state.matches # <<>>
          => app.search_state.current_match_idx < Len(app.search_state.matches)
    /\ ValidIndices(app.modal_search_state.matches, Len(app.filter_modal_state.syscall_list))
    /\ app.modal_search_state.matches # <<>>
          => app.modal_search_state.current_match_idx < Len(app.modal_search_state.matches)


\* a key has rebuilt the list while the second or a later match of the main
\* search was the current one
C40_Witness ==
    /\ pc = "editor"
    /\ app.rebuilt
    /\ app.search_state.matches # <<>>
    /\ app.search_state.current_match_idx > 0
    /\ Len(app.display_lines) > 0


-----------------------------------------------------------------------------
(* A claim about a StraceParser used more than once, checked under SpecReuse *)

\* line i is a resumed line that looks up the unfinished table and finds an index
ResumedLookup(i) ==
    /\ EventLine(i)
    /\ ParsedLine[i].ok
    /\ ~ParsedLine[i].val.is_unfinished
    /\ ParsedLine[i].val.is_resumed
    /\ ParsedLine[i].val.pid \in DOMAIN unfinished

\* C36: whenever a resumed line looks up the unfinished table, the index it
\* finds is a valid index into the entry list being built and names an entry of
\* the same PID that was created from an unfinished line and not completed
\* yet, also when the StraceParser is used for more than one parse_lines call.
C36_UnfinishedIndexIsValid ==
    [][\A i \in LineIds :
          ResumedLookup(i) =>
              /\ unfinished[ParsedLine[i].val.pid] < Len(AllEntries)
              /\ AllEntries[unfinished[ParsedLine[i].val.pid] + 1].pid = ParsedLine[i].val.pid
              /\ AllEntries[unfinished[ParsedLine[i].val.pid] + 1].is_unfinished
      ]_vars


-----------------------------------------------------------------------------
(* A claim about small terminals, checked under SpecSmall *)

\* C39: the scroll adjustment of every draw never underflows unsigned
\* arithmetic, whatever the height of the list, 0 included; it leaves
\* scroll_offset <= selected_line, and selected_line < scroll_offset +
\* visible_height whenever visible_height > 0.
C39_DrawNeverUnderflows ==
    [][pc = "draw" /\ pc' # "draw" =>
        /\ pc' # "panic"
        /\ ~draw_list_overflows(app, app'.last_visible_height)
        /\ app'.scroll_offset <= app'.selected_line
        /\ app'.last_visible_height > 0
              => app'.selected_line < app'.scroll_offset + app'.last_visible_height
      ]_vars

=============================================================================
